---------------------------- MODULE Spec2Model ----------------------------
(***************************************************************************)
(* State synchronizer of darke-chess: AnalysisThread._sync_to_board_part   *)
(* and the part of AnalysisThread.run that consumes its result             *)
(* (src/gui/control_window.py).                                            *)
(*                                                                         *)
(* Board readings are FEN piece-placement strings, modelled as sequences   *)
(* of one-character strings.  chess.Board (the python-chess library the    *)
(* code calls) is modelled by its rules on the board whose geometry is     *)
(* that of StartBoardPart: piece movement, check, legal moves, push/pop,   *)
(* board_fen(), fen(), the FEN parser and is_valid().  There is no         *)
(* castling, pawn double step or en passant on this board.                 *)
(***************************************************************************)
EXTENDS Integers, Sequences, FiniteSets, TLC

\* ------------------------------------------------------------------------
\* Characters of a placement string
\* ------------------------------------------------------------------------

WhitePieces == {"K", "Q", "R", "B", "N", "P"}
BlackPieces == {"k", "q", "r", "b", "n", "p"}
PieceChars  == WhitePieces \cup BlackPieces
Empty       == "."

\* str.isdigit() on one character
IsDigit(c) == c \in {"0", "1", "2", "3", "4", "5", "6", "7", "8", "9"}

\* int(char) for a digit character
DigitVal(c) ==
    CASE c = "0" -> 0 [] c = "1" -> 1 [] c = "2" -> 2 [] c = "3" -> 3
      [] c = "4" -> 4 [] c = "5" -> 5 [] c = "6" -> 6 [] c = "7" -> 7
      [] c = "8" -> 8 [] c = "9" -> 9

DigitChar(n) ==
    CASE n = 1 -> "1" [] n = 2 -> "2" [] n = 3 -> "3" [] n = 4 -> "4"
      [] n = 5 -> "5" [] n = 6 -> "6" [] n = 7 -> "7" [] n = 8 -> "8"

\* str.isalpha() on one character of a reading: the letters a reading can hold
IsAlpha(c) == c \in PieceChars \cup {"x", "X"}

\* str.count(ch)
RECURSIVE CountChar(_, _)
CountChar(s, ch) ==
    IF s = <<>> THEN 0
    ELSE (IF Head(s) = ch THEN 1 ELSE 0) + CountChar(Tail(s), ch)

RECURSIVE CountAlpha(_)
CountAlpha(s) ==
    IF s = <<>> THEN 0
    ELSE (IF IsAlpha(Head(s)) THEN 1 ELSE 0) + CountAlpha(Tail(s))

\* ------------------------------------------------------------------------
\* Board geometry
\* ------------------------------------------------------------------------

\* The start placement (the board the tracker is constructed with).
StartBoardPart ==
    <<"r", "n", "1", "k", "/", "p", "3", "/", "3", "P", "/", "K", "1", "N", "R">>

RECURSIVE RowWidth(_)
RowWidth(s) ==
    IF s = <<>> \/ Head(s) = "/" THEN 0
    ELSE (IF IsDigit(Head(s)) THEN DigitVal(Head(s)) ELSE 1) + RowWidth(Tail(s))

NumFiles == RowWidth(StartBoardPart)
NumRanks == CountChar(StartBoardPart, "/") + 1
NumSquares == NumFiles * NumRanks
Squares == 1 .. NumSquares

\* Squares are numbered in placement order: row 0 is the top rank.
Row(i) == (i - 1) \div NumFiles
Col(i) == (i - 1) % NumFiles
SqAt(r, c) == r * NumFiles + c + 1
OnBoard(r, c) == r >= 0 /\ r < NumRanks /\ c >= 0 /\ c < NumFiles

IsWhite(p) == p \in WhitePieces
IsBlack(p) == p \in BlackPieces
ColorOf(p) == IF IsWhite(p) THEN "w" ELSE IF IsBlack(p) THEN "b" ELSE "-"
Other(s) == IF s = "w" THEN "b" ELSE "w"

\* piece type in lower case
TypeOf(p) ==
    CASE p \in {"K", "k"} -> "k" [] p \in {"Q", "q"} -> "q"
      [] p \in {"R", "r"} -> "r" [] p \in {"B", "b"} -> "b"
      [] p \in {"N", "n"} -> "n" [] p \in {"P", "p"} -> "p"
      [] OTHER -> "-"

PieceOf(type, color) ==
    IF color = "b" THEN type
    ELSE CASE type = "k" -> "K" [] type = "q" -> "Q" [] type = "r" -> "R"
           [] type = "b" -> "B" [] type = "n" -> "N" [] type = "p" -> "P"

\* ------------------------------------------------------------------------
\* FEN placement: parser and printer
\* ------------------------------------------------------------------------

\* chess.Board.set_board_fen: rows separated by "/", every row describing
\* exactly NumFiles squares, no two digits in a row, only piece letters and
\* digits.  ok = FALSE stands for the ValueError.
RECURSIVE ParseFrom(_, _, _, _, _)
ParseFrom(s, sq, fieldSum, prevDigit, rowsDone) ==
    IF s = <<>> THEN
        [ok |-> fieldSum = NumFiles /\ rowsDone = NumRanks - 1, sq |-> sq]
    ELSE LET c == Head(s) IN
        IF c = "/" THEN
            IF fieldSum # NumFiles THEN [ok |-> FALSE, sq |-> <<>>]
            ELSE ParseFrom(Tail(s), sq, 0, FALSE, rowsDone + 1)
        ELSE IF c \in {"1", "2", "3", "4", "5", "6", "7", "8"} THEN
            IF prevDigit THEN [ok |-> FALSE, sq |-> <<>>]
            ELSE ParseFrom(Tail(s), sq \o [k \in 1 .. DigitVal(c) |-> Empty],
                           fieldSum + DigitVal(c), TRUE, rowsDone)
        ELSE IF c \in PieceChars THEN
            ParseFrom(Tail(s), Append(sq, c), fieldSum + 1, FALSE, rowsDone)
        ELSE [ok |-> FALSE, sq |-> <<>>]

ParseBoardFen(part) == ParseFrom(part, <<>>, 0, FALSE, 0)

\* chess.Board.board_fen(): the placement string of a square array.
RECURSIVE FenFrom(_, _, _)
FenFrom(sq, i, empties) ==
    IF i > NumSquares THEN
        IF empties > 0 THEN <<DigitChar(empties)>> ELSE <<>>
    ELSE
        LET newRow == Col(i) = 0 /\ i > 1
            flush  == IF newRow /\ empties > 0 THEN <<DigitChar(empties)>> ELSE <<>>
            sep    == IF newRow THEN <<"/">> ELSE <<>>
            e0     == IF newRow THEN 0 ELSE empties
        IN  IF sq[i] = Empty THEN flush \o sep \o FenFrom(sq, i + 1, e0 + 1)
            ELSE flush \o sep
                 \o (IF e0 > 0 THEN <<DigitChar(e0)>> ELSE <<>>)
                 \o <<sq[i]>> \o FenFrom(sq, i + 1, 0)

PlacementFen(sq) == FenFrom(sq, 1, 0)


\* ------------------------------------------------------------------------
\* chess.Board: positions, attacks, legal moves
\* ------------------------------------------------------------------------

KnightSteps == {<<-2, -1>>, <<-2, 1>>, <<-1, -2>>, <<-1, 2>>,
                <<1, -2>>, <<1, 2>>, <<2, -1>>, <<2, 1>>}
KingSteps   == {<<-1, -1>>, <<-1, 0>>, <<-1, 1>>, <<0, -1>>,
                <<0, 1>>, <<1, -1>>, <<1, 0>>, <<1, 1>>}
RookDirs    == {<<-1, 0>>, <<1, 0>>, <<0, -1>>, <<0, 1>>}
BishopDirs  == {<<-1, -1>>, <<-1, 1>>, <<1, -1>>, <<1, 1>>}

\* White pawns move towards row 0, black pawns towards the last row.
Forward(color) == IF color = "w" THEN -1 ELSE 1
LastRow(color) == IF color = "w" THEN 0 ELSE NumRanks - 1

\* The first piece met from (r, c), exclusive, in direction d; Empty if none.
RECURSIVE FirstPiece(_, _, _, _)
FirstPiece(sq, r, c, d) ==
    LET r1 == r + d[1]
        c1 == c + d[2]
    IN  IF ~OnBoard(r1, c1) THEN Empty
        ELSE IF sq[SqAt(r1, c1)] # Empty THEN sq[SqAt(r1, c1)]
        ELSE FirstPiece(sq, r1, c1, d)

\* The squares holding a piece of colour `by` that attacks square t.
Attackers(sq, t, by) ==
    LET r == Row(t)
        c == Col(t)
        stepFrom(steps, type) ==
            {SqAt(r + d[1], c + d[2]) : d \in
                {e \in steps : OnBoard(r + e[1], c + e[2])
                     /\ sq[SqAt(r + e[1], c + e[2])] = PieceOf(type, by)}}
        \* a pawn of colour `by` attacks t from the row behind t
        pawnFrom ==
            {SqAt(r - Forward(by), c + dc) : dc \in
                {e \in {-1, 1} : OnBoard(r - Forward(by), c + e)
                     /\ sq[SqAt(r - Forward(by), c + e)] = PieceOf("p", by)}}
        RECURSIVE SlideSq(_, _, _)
        SlideSq(r0, c0, d) ==
            LET r1 == r0 + d[1]
                c1 == c0 + d[2]
            IN  IF ~OnBoard(r1, c1) THEN 0
                ELSE IF sq[SqAt(r1, c1)] # Empty THEN SqAt(r1, c1)
                ELSE SlideSq(r1, c1, d)
        slideFrom(dirs, types) ==
            {SlideSq(r, c, d) : d \in
                {e \in dirs : FirstPiece(sq, r, c, e) \in
                                  {PieceOf(ty, by) : ty \in types}}}
    IN  stepFrom(KnightSteps, "n") \cup stepFrom(KingSteps, "k") \cup pawnFrom
        \cup slideFrom(RookDirs, {"r", "q"}) \cup slideFrom(BishopDirs, {"b", "q"})

IsAttacked(sq, t, by) == Attackers(sq, t, by) # {}

KingSquares(sq, color) == {i \in Squares : sq[i] = PieceOf("k", color)}

\* Whether the king of `color` is attacked (Board.is_check for that side).
InCheck(sq, color) ==
    \E k \in KingSquares(sq, color) : IsAttacked(sq, k, Other(color))

\* The squares a sliding piece on (r, c) reaches in direction d.
RECURSIVE SlideTargets(_, _, _, _, _)
SlideTargets(sq, r, c, d, color) ==
    LET r1 == r + d[1]
        c1 == c + d[2]
    IN  IF ~OnBoard(r1, c1) THEN {}
        ELSE IF sq[SqAt(r1, c1)] = Empty
             THEN {SqAt(r1, c1)} \cup SlideTargets(sq, r1, c1, d, color)
        ELSE IF ColorOf(sq[SqAt(r1, c1)]) = color THEN {}
        ELSE {SqAt(r1, c1)}

NoPromo == ""
PromoTypes == {"q", "r", "b", "n"}

\* chess.Move: from-square, to-square, promotion type
MoveOf(f, t, p) == [from |-> f, to |-> t, promo |-> p]

\* Board.generate_pseudo_legal_moves for the piece on square f
PieceMoves(sq, f, color) ==
    LET r == Row(f)
        c == Col(f)
        ty == TypeOf(sq[f])
        stepTargets(steps) ==
            {SqAt(r + d[1], c + d[2]) : d \in
                {e \in steps : OnBoard(r + e[1], c + e[2])
                     /\ ColorOf(sq[SqAt(r + e[1], c + e[2])]) # color}}
        slides(dirs) ==
            UNION {SlideTargets(sq, r, c, d, color) : d \in dirs}
        r1 == r + Forward(color)
        pawnPush ==
            IF OnBoard(r1, c) /\ sq[SqAt(r1, c)] = Empty THEN {SqAt(r1, c)} ELSE {}
        pawnTake ==
            {SqAt(r1, c + dc) : dc \in
                {e \in {-1, 1} : OnBoard(r1, c + e)
                     /\ ColorOf(sq[SqAt(r1, c + e)]) = Other(color)}}
        pawnMoves ==
            UNION {IF Row(t) = LastRow(color)
                   THEN {MoveOf(f, t, p) : p \in PromoTypes}
                   ELSE {MoveOf(f, t, NoPromo)} : t \in pawnPush \cup pawnTake}
        plain(ts) == {MoveOf(f, t, NoPromo) : t \in ts}
    IN  CASE ty = "p" -> pawnMoves
          [] ty = "n" -> plain(stepTargets(KnightSteps))
          [] ty = "k" -> plain(stepTargets(KingSteps))
          [] ty = "r" -> plain(slides(RookDirs))
          [] ty = "b" -> plain(slides(BishopDirs))
          [] ty = "q" -> plain(slides(RookDirs \cup BishopDirs))
          [] OTHER -> {}

\* The square array after move m
MovePieces(sq, m) ==
    [sq EXCEPT ![m.from] = Empty,
               ![m.to] = IF m.promo = NoPromo THEN sq[m.from]
                         ELSE PieceOf(m.promo, ColorOf(sq[m.from]))]

\* Board.legal_moves as a set: pseudo-legal moves that do not leave the
\* mover's king attacked
LegalMoveSet(b) ==
    {m \in UNION {PieceMoves(b.sq, f, b.turn) :
                    f \in {i \in Squares : ColorOf(b.sq[i]) = b.turn}} :
        ~InCheck(MovePieces(b.sq, m), b.turn)}

\* The position of a move in the generation order
MoveKey(m) ==
    m.from * 1000 + m.to * 10
    + (CASE m.promo = "q" -> 1 [] m.promo = "r" -> 2 [] m.promo = "b" -> 3
         [] m.promo = "n" -> 4 [] OTHER -> 0)

RECURSIVE SortMoves(_)
SortMoves(ms) ==
    IF ms = {} THEN <<>>
    ELSE LET m == CHOOSE x \in ms : \A y \in ms : MoveKey(x) <= MoveKey(y)
         IN  <<m>> \o SortMoves(ms \ {m})

\* Board.legal_moves in iteration order
LegalMoves(b) == SortMoves(LegalMoveSet(b))

\* The part of a board that pop() restores
Snapshot(b) == [sq |-> b.sq, turn |-> b.turn, hm |-> b.hm, fm |-> b.fm]

\* Board.push(m): move the piece, flip the turn, advance the clocks, and
\* keep the previous position on the stack
Push(b, m) ==
    [sq    |-> MovePieces(b.sq, m),
     turn  |-> Other(b.turn),
     hm    |-> IF TypeOf(b.sq[m.from]) = "p" \/ b.sq[m.to] # Empty THEN 0 ELSE b.hm + 1,
     fm    |-> IF b.turn = "b" THEN b.fm + 1 ELSE b.fm,
     stack |-> Append(b.stack, [move |-> m, prev |-> Snapshot(b)])]

\* Mutant of Pop: the move is left on the board
Pop_Nothing(b) == b

\* Board.pop(): restore the position before the last pushed move
Pop(b) ==
    LET top == b.stack[Len(b.stack)]
    IN  [sq |-> top.prev.sq, turn |-> top.prev.turn, hm |-> top.prev.hm,
         fm |-> top.prev.fm, stack |-> SubSeq(b.stack, 1, Len(b.stack) - 1)]

\* Board.board_fen()
BoardFen(b) == PlacementFen(b.sq)

\* Board.fen(): placement, side to move, castling and en-passant fields
\* (none on this board), halfmove clock, fullmove number
Fen(b) == <<BoardFen(b), b.turn, "-", "-", b.hm, b.fm>>

\* chess.Board(): the start position
StartBoard ==
    [sq |-> ParseBoardFen(StartBoardPart).sq, turn |-> "w", hm |-> 0, fm |-> 1,
     stack |-> <<>>]

\* chess.Board(f"{board_part} {s} - - 0 1"); ok = FALSE stands for the
\* exception the constructor raises on a malformed placement
BoardFromFen(part, s) ==
    LET p == ParseBoardFen(part)
    IN  [ok |-> p.ok,
         board |-> [sq |-> p.sq, turn |-> s, hm |-> 0, fm |-> 1, stack |-> <<>>]]

\* Board.is_valid(): exactly one king per side, at most 16 pieces and 8 pawns
\* per side, no pawn on a back rank, the side that just moved not in check,
\* and at most two checkers
IsValid(b) ==
    LET n(p) == Cardinality({i \in Squares : b.sq[i] = p})
        cnt(color) == Cardinality({i \in Squares : ColorOf(b.sq[i]) = color})
    IN  /\ n("K") = 1 /\ n("k") = 1
        /\ cnt("w") <= 16 /\ cnt("b") <= 16
        /\ n("P") <= 8 /\ n("p") <= 8
        /\ \A i \in Squares : Row(i) \in {0, NumRanks - 1} => TypeOf(b.sq[i]) # "p"
        /\ ~InCheck(b.sq, Other(b.turn))
        /\ \A k \in KingSquares(b.sq, b.turn) :
               Cardinality(Attackers(b.sq, k, Other(b.turn))) <= 2

\* ------------------------------------------------------------------------
\* UCI move strings
\* ------------------------------------------------------------------------

FileChars == <<"a", "b", "c", "d", "e", "f", "g", "h">>

\* The name of square i: file letter, rank digit (the top row is the
\* highest rank)
SquareName(i) == <<FileChars[Col(i) + 1], DigitChar(NumRanks - Row(i))>>

\* chess.Move.uci()
Uci(m) ==
    SquareName(m.from) \o SquareName(m.to)
    \o (IF m.promo = NoPromo THEN <<>> ELSE <<m.promo>>)

\* chess.Move.null(), written "0000"
NullMove == [from |-> 0, to |-> 0, promo |-> NoPromo]
NullUci == <<"0", "0", "0", "0">>

\* The square a file letter and a rank digit name; 0 if they name none
ParseSquare(f, r) ==
    LET cols == {c \in 0 .. NumFiles - 1 : FileChars[c + 1] = f}
        rows == {w \in 0 .. NumRanks - 1 : DigitChar(NumRanks - w) = r}
    IN  IF cols = {} \/ rows = {} THEN 0
        ELSE SqAt(CHOOSE w \in rows : TRUE, CHOOSE c \in cols : TRUE)

\* chess.Move.from_uci(s); ok = FALSE stands for the exception it raises
FromUci(s) ==
    IF s = NullUci THEN [ok |-> TRUE, move |-> NullMove]
    ELSE IF Len(s) \notin {4, 5} THEN [ok |-> FALSE, move |-> NullMove]
    ELSE LET f == ParseSquare(s[1], s[2])
             t == ParseSquare(s[3], s[4])
             p == IF Len(s) = 5 THEN s[5] ELSE NoPromo
         IN  IF f = 0 \/ t = 0 \/ f = t \/ (Len(s) = 5 /\ p \notin PromoTypes)
             THEN [ok |-> FALSE, move |-> NullMove]
             ELSE [ok |-> TRUE, move |-> MoveOf(f, t, p)]

\* m in board.legal_moves, with `moves` the legal moves of the board
IsLegalIn(m, moves) == \E i \in 1 .. Len(moves) : moves[i] = m

\* ------------------------------------------------------------------------
\* AnalysisThread: the state synchronizer
\* ------------------------------------------------------------------------

None == <<>>

\* AnalysisThread.side: 'white' from construction; start_analysis starts the
\* loop only with white at the bottom
Side == "white"

\* Mutant of DesyncThreshold: the snap starts one tick early
DesyncThreshold_OneEarly == 45 - 1

MaxPawns        == 8
MaxPieces       == 32
DesyncThreshold == 45
WindowSize == 5
ConfirmThreshold == 2

\* _board_diff_count.expand_fen: digits become runs of '.', '/' is dropped
RECURSIVE ExpandFen(_)
ExpandFen(f) ==
    IF f = <<>> THEN <<>>
    ELSE LET c == Head(f) IN
         (IF IsDigit(c) THEN [k \in 1 .. DigitVal(c) |-> "."]
          ELSE IF c = "/" THEN <<>> ELSE <<c>>) \o ExpandFen(Tail(f))

\* _board_diff_count: the number of squares in which two placements differ
BoardDiffCount(fen1, fen2) ==
    LET s1 == ExpandFen(fen1)
        s2 == ExpandFen(fen2)
    IN  IF Len(s1) # Len(s2) THEN 64
        ELSE Cardinality({i \in 1 .. Len(s1) : s1[i] # s2[i]})

\* Mutant of IsSaneBoard: only the black king is counted
IsSaneBoard_BlackKingOnly(board_part) ==
    IF CountChar(board_part, "k") # 1 THEN FALSE
    ELSE IF CountChar(board_part, "p") > 8 \/ CountChar(board_part, "P") > 8 THEN FALSE
    ELSE IF CountAlpha(board_part) > 32 THEN FALSE
    ELSE TRUE

\* _is_sane_board: exactly one king per side, at most 8 pawns per side, at
\* most 32 pieces
IsSaneBoard(board_part) ==
    IF CountChar(board_part, "k") # 1 \/ CountChar(board_part, "K") # 1 THEN FALSE
    ELSE IF CountChar(board_part, "p") > MaxPawns
            \/ CountChar(board_part, "P") > MaxPawns THEN FALSE
    ELSE IF CountAlpha(board_part) > MaxPieces THEN FALSE
    ELSE TRUE

\* What a call of _sync_to_board_part does: its return value, the state it
\* leaves, the number of move_detected emissions and whether the recovery
\* snap was attempted.

\* Mutants of RejectInsane: the rejected reading is not counted; the
\* rejected reading clears the already-analyzed memo
RejectInsane_NotCounted(b, desync, last) ==
    [ret |-> FALSE, board |-> b, desync |-> desync, last |-> last,
     emitted |-> 0, recovery |-> FALSE]

RejectInsane_ClearsMemo(b, desync, last) ==
    [ret |-> FALSE, board |-> b, desync |-> desync + 1, last |-> None,
     emitted |-> 0, recovery |-> FALSE]

\* I. the reading fails the sanity filter
RejectInsane(b, desync, last) ==
    [ret |-> FALSE, board |-> b, desync |-> desync + 1, last |-> last,
     emitted |-> 0, recovery |-> FALSE]

\* Mutant of NoChange: the no-op announces a move
NoChange_Emits(b, last) ==
    [ret |-> TRUE, board |-> b, desync |-> 0, last |-> last,
     emitted |-> 1, recovery |-> FALSE]

\* II. the reading is the tracked placement
NoChange(b, last) ==
    [ret |-> TRUE, board |-> b, desync |-> 0, last |-> last,
     emitted |-> 0, recovery |-> FALSE]

\* Mutant of MoveRecognized: the move is committed without the signal
MoveRecognized_Silent(pushed, last) ==
    [ret |-> TRUE, board |-> pushed, desync |-> 0, last |-> last,
     emitted |-> 0, recovery |-> FALSE]

\* III. a legal move gives the reading: it stays pushed
MoveRecognized(pushed, last) ==
    [ret |-> TRUE, board |-> pushed, desync |-> 0, last |-> last,
     emitted |-> 1, recovery |-> FALSE]

\* Mutant of RecoverySuccess: the snap puts the start position on the board
RecoverySuccess_ToStart(snapped) ==
    [ret |-> TRUE, board |-> StartBoard, desync |-> 0, last |-> None,
     emitted |-> 0, recovery |-> TRUE]

\* IV. the snap succeeded
RecoverySuccess(snapped) ==
    [ret |-> TRUE, board |-> snapped, desync |-> 0, last |-> None,
     emitted |-> 0, recovery |-> TRUE]

\* Mutant of NoMatch: the failed call clears the already-analyzed memo
NoMatch_ClearsMemo(b, desync, last, tried) ==
    [ret |-> FALSE, board |-> b, desync |-> desync, last |-> None,
     emitted |-> 0, recovery |-> tried]

\* the final return False, with the incremented counter
NoMatch(b, desync, last, tried) ==
    [ret |-> FALSE, board |-> b, desync |-> desync, last |-> last,
     emitted |-> 0, recovery |-> tried]

\* III. what the iterations of the loop over legal_moves compute, whatever
\* the reading is: iteration i pushes moves[i] on the board the iteration
\* before left, takes the placement, and pops (the pop is skipped only by the
\* iteration that returns)
RECURSIVE Plies(_, _, _)
Plies(b, moves, i) ==
    IF i > Len(moves) THEN <<>>
    ELSE LET pushed == Push(b, moves[i])
             popped == Pop(pushed)
         IN  <<[pushed |-> pushed, fen |-> BoardFen(pushed), popped |-> popped]>>
             \o Plies(popped, moves, i + 1)

\* Mutant of SearchLegalPlies: only the first legal move is tried
SearchLegalPlies_FirstOnly(b, plies, i, board_part) ==
    IF i > Len(plies) THEN [found |-> FALSE, board |-> b]
    ELSE IF plies[i].fen = board_part
         THEN [found |-> TRUE, board |-> plies[i].pushed]
         ELSE [found |-> FALSE, board |-> plies[i].popped]

\* III. the loop over legal_moves: push, compare the placement, return with
\* the move left pushed on a match, pop otherwise
RECURSIVE SearchLegalPlies(_, _, _, _)
SearchLegalPlies(b, plies, i, board_part) ==
    IF i > Len(plies) THEN [found |-> FALSE, board |-> b]
    ELSE IF plies[i].fen = board_part
         THEN [found |-> TRUE, board |-> plies[i].pushed]
         ELSE SearchLegalPlies(plies[i].popped, plies, i + 1, board_part)

\* Mutant of RecoverySnap: is_valid() is not asked
RECURSIVE RecoverySnap_NoValidCheck(_, _, _)
RecoverySnap_NoValidCheck(board_part, sides, i) ==
    IF i > Len(sides) THEN [ok |-> FALSE, board |-> StartBoard]
    ELSE LET b == BoardFromFen(board_part, sides[i])
         IN  IF b.ok THEN [ok |-> TRUE, board |-> b.board]
             ELSE RecoverySnap_NoValidCheck(board_part, sides, i + 1)

\* IV. the loop over [my_side, opp_side]: the first side to move for which
\* the placement parses and is_valid() holds
RECURSIVE RecoverySnap(_, _, _)
RecoverySnap(board_part, sides, i) ==
    IF i > Len(sides) THEN [ok |-> FALSE, board |-> StartBoard]
    ELSE LET b == BoardFromFen(board_part, sides[i])
         IN  IF b.ok /\ IsValid(b.board) THEN [ok |-> TRUE, board |-> b.board]
             ELSE RecoverySnap(board_part, sides, i + 1)

\* [my_side, opp_side]
RecoverySides ==
    LET my_side  == IF Side = "white" THEN "w" ELSE "b"
        opp_side == IF Side = "white" THEN "b" ELSE "w"
    IN  <<my_side, opp_side>>

\* _sync_to_board_part(board_part) on the state (b, desync, last), with
\* `plies` the iterations over b.legal_moves
SyncToBoardPart(b, plies, desync, last, board_part) ==
    IF ~IsSaneBoard(board_part) THEN RejectInsane(b, desync, last)
    ELSE IF BoardFen(b) = board_part THEN NoChange(b, last)
    ELSE LET s == SearchLegalPlies(b, plies, 1, board_part) IN
        IF s.found THEN MoveRecognized(s.board, last)
        ELSE IF desync + 1 > DesyncThreshold THEN
            LET r == RecoverySnap(board_part, RecoverySides, 1)
            IN  IF r.ok THEN RecoverySuccess(r.board)
                ELSE NoMatch(s.board, desync + 1, last, TRUE)
        ELSE NoMatch(s.board, desync + 1, last, FALSE)

\* ------------------------------------------------------------------------
\* Readings: the confirmed placements the consensus filter can hand over
\* ------------------------------------------------------------------------

\* The most plies pushed on a tracked board before the model stops feeding
\* it further moves
MaxPly == 2
\* The largest value the failed-sync counter takes before the model stops
\* feeding readings
MaxDesync == 47
\* Only a board with at most this many plies pushed is left out of sync that
\* long; a board with more is fed failing readings up to a counter of MaxStall
MaxDesyncPly == 0
MaxScreenPly == 2
MaxRestartPly == 3
MaxStall == 2
\* In the repeated-reading scenario: the most plies played before the
\* reading starts to repeat, and the number of ticks it repeats
MaxScenarioPly == 1
ScenarioTicks == 50

\* Readings that are the same whatever the tracked position is.
NoWhiteKing   == <<"r", "n", "1", "k", "/", "p", "3", "/", "3", "P", "/", "2", "N", "R">>
TwoWhiteKings == <<"r", "n", "1", "k", "/", "p", "3", "/", "K", "2", "P", "/", "K", "1", "N", "R">>
TwoBlackKings == <<"r", "k", "1", "k", "/", "p", "3", "/", "3", "P", "/", "K", "1", "N", "R">>
NinePawns     == <<"p", "p", "p", "p", "/", "p", "p", "p", "p", "/", "p", "k", "2", "/", "3", "K">>
TooManyPieces == <<"K", "k">> \o [i \in 1 .. MaxPieces - 1 |-> "n"]
\* a legal position far from the start, legal with either side to move
FarEither     == <<"k", "3", "/", "4", "/", "4", "/", "K", "3">>
\* a legal position only with black to move (the black king is in check)
FarBlackOnly  == <<"k", "3", "/", "4", "/", "4", "/", "R", "2", "K">>
\* one king per side, but both kings attacked: legal with neither side to move
FarIllegal    == <<"k", "R", "2", "/", "4", "/", "4", "/", "K", "r", "2">>
\* one king per side, but a rank is missing: the FEN parser raises
Malformed     == <<"k", "3", "/", "4", "/", "K", "3">>

FixedReadings ==
    {NoWhiteKing, TwoWhiteKings, TwoBlackKings, NinePawns, TooManyPieces,
     FarEither, FarBlackOnly, FarIllegal, Malformed}

\* A misread of one square, and of two squares, of a placement: squares of
\* the top rank read as white pawns
Misread1(sq) == [sq EXCEPT ![SqAt(0, 2)] = "P"]
Misread2(sq) == [sq EXCEPT ![SqAt(0, 2)] = "P", ![SqAt(0, 1)] = "P"]

\* The placements one legal move away from b
SuccessorFens(plies) == {plies[i].fen : i \in 1 .. Len(plies)}

\* What the screen can show to a tracker holding b: the tracked placement,
\* the placement after each legal move, each of these with one or two
\* squares misread, and the fixed readings
Readings(b, plies) ==
    LET succ == IF Len(b.stack) < MaxPly
                THEN {plies[i].pushed.sq : i \in 1 .. Len(plies)} ELSE {}
    IN  {BoardFen(b)} \cup {PlacementFen(q) : q \in succ}
        \cup {PlacementFen(Misread1(b.sq)), PlacementFen(Misread2(b.sq))}
        \cup {PlacementFen(Misread1(q)) : q \in succ}
        \cup FixedReadings

\* The readings of the repeated-reading scenario: those that are neither
\* the tracked placement nor one legal move away from it
UnrecognizableReadings(b, plies) ==
    ({PlacementFen(Misread1(b.sq))} \cup FixedReadings)
    \ ({BoardFen(b)} \cup SuccessorFens(plies))

\* ------------------------------------------------------------------------
\* State
\* ------------------------------------------------------------------------

VARIABLES
    virtual_board,        \* AnalysisThread.virtual_board
    desync_frames,        \* AnalysisThread._desync_frames
    last_analyzed_board,  \* AnalysisThread.last_analyzed_board
    pc,                   \* where run() is: "loop" (top of the loop),
                          \* "synced" / "failed" (after a sync that
                          \* returned True / False)
    call,                 \* the _sync_to_board_part call just made: its
                          \* argument, the state it started from, what it did
    streak,               \* the repeated-reading scenario: the reading, the
                          \* ticks it was fed, the recovery attempts made
    vision,               \* the BoardVision object: its fields
    recent_reads,         \* AnalysisThread.recent_reads
    running,              \* AnalysisThread.running / isRunning()
    screen,               \* the game shown on the screen
    tick,                 \* what the current loop iteration read and confirmed
    analysis,             \* the engine.analyze call of the current iteration
                          \* and what the loop did with its answer
    gui,                  \* the last operation made from the window: its
                          \* inputs, the state it started from, its result
    win,                  \* the control window: its buttons, its selection,
                          \* and where the GUI thread is
    loop,                 \* the analysis thread: where run() is, and how
                          \* many activations of run() are alive
    eng                   \* the ChessEngine object, its process and the
                          \* threads that call it

threadVars == <<virtual_board, desync_frames, last_analyzed_board, pc, call>>
visionVars == <<vision, recent_reads, running, screen, tick, gui>>
sysVars == <<win, loop, eng>>
vars == <<virtual_board, desync_frames, last_analyzed_board, pc, call, streak,
          vision, recent_reads, running, screen, tick, analysis, gui,
          win, loop, eng>>

NoCall == [made |-> FALSE]
NoStreak == [on |-> FALSE]
NoTick == [made |-> FALSE]
NoAnalysis == [called |-> FALSE]
NoOp == [op |-> "none"]

\* ControlWindow.init_ui: the start button is enabled, the stop and the
\* calibrate buttons are not, no area is selected, the combo box shows its
\* first entry, and the GUI thread is in no handler
InitWindow ==
    [selecting |-> FALSE, selected_rect |-> FALSE,
     btn_calibrate |-> FALSE, btn_start |-> TRUE, btn_stop |-> FALSE,
     combo_side |-> "white", at |-> "idle"]

\* The analysis thread before start(): no activation of run(), no capture
\* has failed
NoLoop == [active |-> 0, failed |-> FALSE]

\* The engine in the specifications that do not follow it
Clients == {"gui", "loop"}

\* What analyze, start and stop return when they return no move
NoResult == "None"

\* A client outside any call of the engine: op is the call in progress, at
\* its position, fen its argument, ret its return value, sent and touched
\* whether it has written a command and whether it has started or killed a
\* process, reads the lines its current wait has skipped, done the call
\* that returned last, skipped the go command answered by the last bestmove
\* line its waits have passed over (0: none)
IdleCall ==
    [op |-> "idle", at |-> "idle", fen |-> None, ret |-> NoResult,
     sent |-> FALSE, touched |-> FALSE, reads |-> 0, done |-> "none",
     skipped |-> 0]

\* ChessEngine.__init__: no process, the lock free, the queue empty; eof
\* counts the reader threads that have met the end of their process's
\* output and not yet put their sentinel, calls the calls begun. Where the
\* process is one that answers its commands in order (inorder), stdin holds
\* the commands written to it that it has not answered yet and gos counts
\* the go commands written
NoEngine ==
    [process |-> "none", lock |-> "free", queue |-> <<>>, eof |-> 0,
     calls |-> 0, th |-> [c \in Clients |-> IdleCall],
     inorder |-> FALSE, stdin |-> <<>>, gos |-> 0]

\* No highlighted pair of squares
NoPair == {}

\* BoardVision.__init__
InitVision ==
    [is_calibrated |-> FALSE,
     profile |-> [bg |-> {}, templates |-> {}, brightness |-> {}, thresholds |-> None],
     last_error |-> "",
     tracked_board |-> StartBoard,
     prev_signatures |-> None,
     prev_occupancy |-> None,
     prev_highlight_pair |-> NoPair,
     unresolved_change_frames |-> 0,
     expected_player_move_uci |-> None]

\* The game on the screen before any move: the start position, no square
\* highlighted
InitScreen == [board |-> StartBoard, pair |-> NoPair, level |-> 0]

\* What engine.analyze can answer, whatever the position is: nothing, a
\* string that is no move, the null move, a move between two far corners, or
\* the first legal move of the start position (legal in some positions, not
\* in others)
NoAnswer == None
Garbage == <<"e", "r", "r", "o", "r">>
CornerUci == Uci(MoveOf(SqAt(0, 0), SqAt(NumRanks - 1, NumFiles - 1), NoPromo))
OpeningUci == Uci(LegalMoves(StartBoard)[1])
EngineAnswers == {NoAnswer, Garbage, NullUci, CornerUci, OpeningUci}

\* run(), step 8: the answer parses as a move and the move is legal on the
\* virtual board
Mutant_TrustsAnyParsedMove(best_move, moves) ==
    best_move # NoAnswer /\ FromUci(best_move).ok

AnswerIsTrusted(best_move, moves) ==
    /\ best_move # NoAnswer
    /\ FromUci(best_move).ok
    /\ IsLegalIn(FromUci(best_move).move, moves)

\* ------------------------------------------------------------------------
\* BoardVision: frames, calibration and move tracking
\* ------------------------------------------------------------------------

\* A frame: per square the edge signature (what stands on the square), the
\* occupancy flag, and the highlight ratio in percent
Render(board, pair, level) ==
    [sig |-> board.sq,
     occ |-> [i \in Squares |-> board.sq[i] # Empty],
     hl  |-> [i \in Squares |-> IF i \in pair THEN level ELSE 0]]

\* Mutant of OrientationSupported: every orientation is accepted
OrientationSupported_Any(orientation) == TRUE

\* orientation == "white", the test calibrate, get_board_state and
\* start_analysis each make
OrientationSupported(orientation) == orientation = "white"

\* Mutant of ResetVision: the calibrated flag survives the reset
ResetVision_KeepsFlag(v) ==
    [v EXCEPT !.profile = [bg |-> {}, templates |-> {}, brightness |-> {},
                           thresholds |-> v.profile.thresholds],
              !.last_error = "",
              !.tracked_board = StartBoard,
              !.prev_signatures = None,
              !.prev_occupancy = None,
              !.prev_highlight_pair = NoPair,
              !.unresolved_change_frames = 0,
              !.expected_player_move_uci = None]

\* _reset()
ResetVision(v) ==
    [v EXCEPT !.is_calibrated = FALSE,
              !.profile = [bg |-> {}, templates |-> {}, brightness |-> {},
                           thresholds |-> v.profile.thresholds],
              !.last_error = "",
              !.tracked_board = StartBoard,
              !.prev_signatures = None,
              !.prev_occupancy = None,
              !.prev_highlight_pair = NoPair,
              !.unresolved_change_frames = 0,
              !.expected_player_move_uci = None]

\* start_piece_map: the squares that hold a piece in the start position
StartPieceSquares == {i \in Squares : StartBoard.sq[i] # Empty}

\* The colour of a square, (r + c) % 2
SquareColour(i) == (Row(i) + Col(i)) % 2

\* _is_start_position_by_occupancy: the number of squares whose occupancy
\* is not that of the start position, and whether it is small enough
OccupancyMisses(image) ==
    Cardinality({i \in Squares : image.occ[i] # (i \in StartPieceSquares)})

IsStartPositionByOccupancy(image) == OccupancyMisses(image) <= 2

\* calibrate(image, orientation): the result (ok, message) and the object
\* it leaves
Calibrate(v, image, orientation) ==
    LET v0 == ResetVision(v)
        fail(w, msg) == [ok |-> FALSE, msg |-> msg,
                         vision |-> [w EXCEPT !.last_error = msg]]
        bg == {SquareColour(i) : i \in Squares \ StartPieceSquares}
        v1 == [v0 EXCEPT !.profile.bg = bg]
        empty_scores == [i \in Squares \ StartPieceSquares |-> image.occ[i]]
        v2 == [v1 EXCEPT
                 !.profile.templates = {StartBoard.sq[i] : i \in StartPieceSquares},
                 !.profile.brightness =
                     {ColorOf(StartBoard.sq[i]) : i \in
                        {j \in StartPieceSquares : image.occ[j]}}]
        v3 == [v2 EXCEPT !.profile.thresholds = empty_scores]
    IN  IF ~OrientationSupported(orientation) THEN
            fail(v0, "Current calibration mode only supports white at bottom.")
        ELSE IF bg # {0, 1} THEN
            fail([v0 EXCEPT !.profile.bg = bg],
                 "Could not sample empty squares for calibration.")
        ELSE IF DOMAIN empty_scores = {} THEN
            fail(v2, "Calibration failed: empty square statistics unavailable.")
        ELSE IF {StartBoard.sq[i] : i \in StartPieceSquares} \ v3.profile.templates # {} THEN
            fail(v3, "Calibration failed: missing templates.")
        ELSE IF ~IsStartPositionByOccupancy(image) THEN
            fail(v3, "Calibration must be done in the exact start position.")
        ELSE [ok |-> TRUE, msg |-> "Calibration complete.",
              vision |-> [v3 EXCEPT !.is_calibrated = TRUE,
                                    !.tracked_board = StartBoard,
                                    !.prev_signatures = image.sig,
                                    !.prev_occupancy = image.occ,
                                    !.prev_highlight_pair = NoPair,
                                    !.expected_player_move_uci = None,
                                    !.last_error = ""]]

\* No move: the None a detector returns
NoMove == [from |-> 0, to |-> 0, promo |-> "None"]

\* sorted(enumerate(highlights), reverse=True)[:2]: the two squares with the
\* highest ratio, the lower index first among equals
MaxIdx(hl, S) ==
    CHOOSE i \in S : \A j \in S : hl[i] > hl[j] \/ (hl[i] = hl[j] /\ i <= j)

TopTwo(hl) ==
    LET i1 == MaxIdx(hl, Squares)
    IN  <<i1, MaxIdx(hl, Squares \ {i1})>>

\* The first element of a sequence of moves with the highest score, given
\* the scores of its elements; NoMove for the empty sequence
RECURSIVE BestFrom(_, _, _, _, _)
BestFrom(ms, scores, i, best, bestScore) ==
    IF i > Len(ms) THEN [move |-> best, score |-> bestScore]
    ELSE IF scores[i] > bestScore
         THEN BestFrom(ms, scores, i + 1, ms[i], scores[i])
         ELSE BestFrom(ms, scores, i + 1, best, bestScore)

\* Whether move m captures on board b
IsCapture(b, m) == b.sq[m.to] # Empty

\* Mutant of DetectMoveFromHighlights: the best candidate is returned
\* whatever its score
DetectMoveFromHighlights_NoMinimum(v, moves, current_highlights, current_occupancy) ==
    LET prev_occ == v.prev_occupancy
        top == TopTwo(current_highlights)
        strong == current_highlights[top[1]] > 12 /\ current_highlights[top[2]] > 12
        highlight_pair == {top[1], top[2]}
        candidates == SelectSeq(moves, LAMBDA mv : {mv.from, mv.to} = highlight_pair)
        score(mv) ==
            (IF prev_occ[mv.from] /\ ~current_occupancy[mv.from] THEN 20 ELSE -20)
            + (IF IsCapture(v.tracked_board, mv)
               THEN (IF current_occupancy[mv.to] THEN 20 ELSE -20)
               ELSE (IF ~prev_occ[mv.to] /\ current_occupancy[mv.to] THEN 20 ELSE -20))
        best == BestFrom(candidates,
                         [i \in 1 .. Len(candidates) |-> score(candidates[i])],
                         1, NoMove, -9990)
    IN  IF prev_occ = None THEN [move |-> NoMove, used |-> FALSE]
        ELSE IF ~strong THEN [move |-> NoMove, used |-> FALSE]
        ELSE IF highlight_pair = v.prev_highlight_pair THEN [move |-> NoMove, used |-> TRUE]
        ELSE IF candidates = <<>> THEN [move |-> NoMove, used |-> TRUE]
        ELSE [move |-> best.move, used |-> TRUE]

\* _detect_move_from_highlights: (move, used_highlight); scores in tenths
DetectMoveFromHighlights(v, moves, current_highlights, current_occupancy) ==
    LET prev_occ == v.prev_occupancy
        top == TopTwo(current_highlights)
        strong == current_highlights[top[1]] > 12 /\ current_highlights[top[2]] > 12
        highlight_pair == {top[1], top[2]}
        candidates == SelectSeq(moves, LAMBDA mv : {mv.from, mv.to} = highlight_pair)
        score(mv) ==
            (IF prev_occ[mv.from] /\ ~current_occupancy[mv.from] THEN 20 ELSE -20)
            + (IF IsCapture(v.tracked_board, mv)
               THEN (IF current_occupancy[mv.to] THEN 20 ELSE -20)
               ELSE (IF ~prev_occ[mv.to] /\ current_occupancy[mv.to] THEN 20 ELSE -20))
        best == BestFrom(candidates,
                         [i \in 1 .. Len(candidates) |-> score(candidates[i])],
                         1, NoMove, -9990)
    IN  IF prev_occ = None THEN [move |-> NoMove, used |-> FALSE]
        ELSE IF ~strong THEN [move |-> NoMove, used |-> FALSE]
        ELSE IF highlight_pair = v.prev_highlight_pair THEN [move |-> NoMove, used |-> TRUE]
        ELSE IF candidates = <<>> THEN [move |-> NoMove, used |-> TRUE]
        ELSE IF best.score < 5 THEN [move |-> NoMove, used |-> TRUE]
        ELSE [move |-> best.move, used |-> TRUE]

\* _expected_changed_squares (no castling, no en passant on this board)
ExpectedChangedSquares(m) == {m.from, m.to}

\* _detect_move_from_signatures: (move, had_change); scores in tenths
DetectMoveFromSignatures(v, moves, current_signatures, current_occupancy) ==
    LET prev_occ == v.prev_occupancy
        changed == {i \in Squares : current_signatures[i] # v.prev_signatures[i]}
        score(mv) ==
            LET expected_idx == ExpectedChangedSquares(mv)
            IN  Cardinality(expected_idx \cap changed) * 35
                - Cardinality(expected_idx \ changed) * 25
                - Cardinality(changed \ expected_idx) * 6
                + (IF prev_occ[mv.from] /\ ~current_occupancy[mv.from] THEN 20 ELSE -20)
                + (IF IsCapture(v.tracked_board, mv)
                   THEN (IF current_occupancy[mv.to] THEN 20 ELSE -30)
                   ELSE (IF ~prev_occ[mv.to] /\ current_occupancy[mv.to]
                         THEN 20 ELSE -20))
        best == BestFrom(moves, [i \in 1 .. Len(moves) |-> score(moves[i])],
                         1, NoMove, -9990)
    IN  IF v.prev_signatures = None \/ prev_occ = None
        THEN [move |-> NoMove, used |-> FALSE]
        ELSE IF Cardinality(changed) < 2 THEN [move |-> NoMove, used |-> FALSE]
        ELSE IF best.move = NoMove THEN [move |-> NoMove, used |-> TRUE]
        ELSE IF Cardinality(ExpectedChangedSquares(best.move) \cap changed) < 2
                \/ best.score < 30
             THEN [move |-> NoMove, used |-> TRUE]
        ELSE [move |-> best.move, used |-> TRUE]

\* _try_apply_expected_player_move, the evidence for move mv: the occupancy
\* transition of its two squares, or a strong highlight on exactly them
HintEvidence(v, mv, current_occupancy, current_highlights) ==
    LET top == TopTwo(current_highlights)
        from_ok == v.prev_occupancy[mv.from] /\ ~current_occupancy[mv.from]
        to_ok == IF IsCapture(v.tracked_board, mv)
                 THEN current_occupancy[mv.to]
                 ELSE ~v.prev_occupancy[mv.to] /\ current_occupancy[mv.to]
        highlight_ok ==
            /\ current_highlights[top[1]] > 12
            /\ current_highlights[top[2]] > 12
            /\ {top[1], top[2]} = {mv.from, mv.to}
    IN  (from_ok /\ to_ok) \/ highlight_ok

\* Mutant of TrackedLegalMoves: the moves of either side, whoever is to move
TrackedLegalMoves_EitherSide(b) ==
    LegalMoves(b) \o LegalMoves([b EXCEPT !.turn = Other(b.turn)])

\* self.tracked_board.legal_moves
TrackedLegalMoves(b) == LegalMoves(b)

\* mv in self.tracked_board.legal_moves
HintIsLegal(v, mv) == IsLegalIn(mv, TrackedLegalMoves(v.tracked_board))

\* _try_apply_expected_player_move: whether the hint was pushed, and the
\* object it leaves
TryApplyExpectedPlayerMove(v, current_occupancy, current_highlights) ==
    IF v.expected_player_move_uci = None THEN [applied |-> FALSE, vision |-> v]
    ELSE IF v.prev_occupancy = None THEN [applied |-> FALSE, vision |-> v]
    ELSE IF v.tracked_board.turn # "w" THEN [applied |-> FALSE, vision |-> v]
    ELSE LET p == FromUci(v.expected_player_move_uci)
         IN  IF ~p.ok THEN
                 [applied |-> FALSE,
                  vision |-> [v EXCEPT !.expected_player_move_uci = None]]
             ELSE IF ~HintIsLegal(v, p.move) THEN
                 [applied |-> FALSE,
                  vision |-> [v EXCEPT !.expected_player_move_uci = None]]
             ELSE IF HintEvidence(v, p.move, current_occupancy, current_highlights) THEN
                 [applied |-> TRUE,
                  vision |-> [v EXCEPT !.tracked_board = Push(@, p.move),
                                       !.expected_player_move_uci = None]]
             ELSE [applied |-> FALSE, vision |-> v]

\* get_board_state, after the hint: the two detectors, the push of the move
\* they found, and the new baselines.  `pushes` lists the pushes made so far
\* in this call, each with the board it was made on.
TrackFrame(v, moves, image, pushes) ==
    LET h == DetectMoveFromHighlights(v, moves, image.hl, image.occ)
        s == DetectMoveFromSignatures(v, moves, image.sig, image.occ)
        move == IF h.move # NoMove THEN h.move ELSE s.move
        had_change == IF h.move # NoMove THEN h.used
                      ELSE IF s.move # NoMove THEN s.used
                      ELSE h.used \/ s.used
        top == TopTwo(image.hl)
    IN  IF move # NoMove THEN
            [vision |-> [v EXCEPT !.tracked_board = Push(@, move),
                                  !.unresolved_change_frames = 0,
                                  !.prev_signatures = image.sig,
                                  !.prev_occupancy = image.occ,
                                  !.prev_highlight_pair =
                                      IF h.used THEN {move.from, move.to} ELSE @],
             pushes |-> Append(pushes, [board |-> v.tracked_board, move |-> move,
                                        by |-> IF h.move # NoMove THEN "highlights"
                                               ELSE "signatures"])]
        ELSE IF had_change THEN
            [vision |-> IF v.unresolved_change_frames + 1 >= 5
                        THEN [v EXCEPT !.unresolved_change_frames = 0,
                                       !.prev_signatures = image.sig,
                                       !.prev_occupancy = image.occ]
                        ELSE [v EXCEPT !.unresolved_change_frames = @ + 1],
             pushes |-> pushes]
        ELSE
            [vision |-> [v EXCEPT !.unresolved_change_frames = 0,
                                  !.prev_signatures = image.sig,
                                  !.prev_occupancy = image.occ,
                                  !.prev_highlight_pair =
                                      IF image.hl[top[1]] > 20 /\ image.hl[top[2]] > 20
                                      THEN {top[1], top[2]} ELSE NoPair],
             pushes |-> pushes]

\* Mutant of AfterHint: the baselines are not replaced after the hint
AfterHint_KeepsBaseline(v, e, image) ==
    [vision |-> e.vision,
     pushes |-> IF e.applied
                THEN <<[board |-> v.tracked_board,
                        move |-> FromUci(v.expected_player_move_uci).move,
                        by |-> "hint"]>>
                ELSE <<>>]

\* get_board_state, the hint step: the object after it and the push it made
AfterHint(v, e, image) ==
    [vision |-> IF e.applied
                THEN [e.vision EXCEPT !.prev_signatures = image.sig,
                                      !.prev_occupancy = image.occ]
                ELSE e.vision,
     pushes |-> IF e.applied
                THEN <<[board |-> v.tracked_board,
                        move |-> FromUci(v.expected_player_move_uci).move,
                        by |-> "hint"]>>
                ELSE <<>>]

\* Mutant of GetBoardState: the frame is processed without a calibration
GetBoardState_Uncalibrated(v, image, orientation) ==
    IF ~OrientationSupported(orientation)
    THEN [ret |-> None, vision |-> v, pushes |-> <<>>]
    ELSE LET a == AfterHint(v, TryApplyExpectedPlayerMove(v, image.occ, image.hl), image)
             t == TrackFrame(a.vision, TrackedLegalMoves(a.vision.tracked_board), image,
                             a.pushes)
         IN  [ret |-> Fen(t.vision.tracked_board), vision |-> t.vision,
              pushes |-> t.pushes]

\* get_board_state(image, orientation): the FEN it returns (None when it
\* returns None), the object it leaves, and the pushes it made
GetBoardState(v, image, orientation) ==
    IF ~v.is_calibrated THEN [ret |-> None, vision |-> v, pushes |-> <<>>]
    ELSE IF ~OrientationSupported(orientation)
    THEN [ret |-> None, vision |-> v, pushes |-> <<>>]
    ELSE LET a == AfterHint(v, TryApplyExpectedPlayerMove(v, image.occ, image.hl), image)
             t == TrackFrame(a.vision, TrackedLegalMoves(a.vision.tracked_board), image,
                             a.pushes)
         IN  [ret |-> Fen(t.vision.tracked_board), vision |-> t.vision,
              pushes |-> t.pushes]

\* __init__ / reset_state
Init ==
    /\ virtual_board = StartBoard
    /\ desync_frames = 0
    /\ last_analyzed_board = None
    /\ pc = "loop"
    /\ call = NoCall
    /\ streak = NoStreak
    /\ vision = InitVision
    /\ recent_reads = <<>>
    /\ running = FALSE
    /\ screen = InitScreen
    /\ tick = NoTick
    /\ analysis = NoAnalysis
    /\ gui = NoOp
    /\ win = InitWindow
    /\ loop = NoLoop
    /\ eng = NoEngine

\* reset_state(): run() calls it when the loop starts, calibrate_board after
\* a successful calibration (the loop is not running then)
ResetState ==
    /\ pc = "loop"
    /\ virtual_board' = StartBoard
    /\ desync_frames' = 0
    /\ last_analyzed_board' = None
    /\ pc' = "loop"
    /\ call' = NoCall
    /\ streak' = NoStreak
    /\ recent_reads' = <<>>
    /\ UNCHANGED <<vision, running, screen, tick, analysis, gui>>
    /\ UNCHANGED sysVars

\* run(), step 4: the call _sync_to_board_part(board_part), with `moves`
\* the legal moves of the tracked board and `plies` the loop's iterations
\* over them
SyncCall(moves, plies, board_part) ==
    \E r \in {SyncToBoardPart(virtual_board, plies, desync_frames,
                              last_analyzed_board, board_part)} :
        /\ virtual_board' = r.board
        /\ desync_frames' = r.desync
        /\ last_analyzed_board' = r.last
        /\ pc' = IF r.ret THEN "synced" ELSE "failed"
        /\ call' = [made |-> TRUE, part |-> board_part, ret |-> r.ret,
                    emitted |-> r.emitted, recovery |-> r.recovery,
                    pre_board |-> virtual_board,
                    pre_moves |-> moves,
                    pre_desync |-> desync_frames,
                    pre_last |-> last_analyzed_board]

\* A tick whose confirmed reading is any of the readings
SyncStep ==
    /\ pc = "loop"
    /\ ~streak.on
    /\ desync_frames < (IF Len(virtual_board.stack) <= MaxDesyncPly
                        THEN MaxDesync ELSE MaxStall)
    /\ \E moves \in {LegalMoves(virtual_board)} :
       \E plies \in {Plies(virtual_board, moves, 1)} :
       \E board_part \in Readings(virtual_board, plies) :
           SyncCall(moves, plies, board_part)
    /\ UNCHANGED <<streak, visionVars, analysis>>
    /\ UNCHANGED sysVars

\* run(), after a sync that returned False: the loop sleeps and continues
\* with the next tick
SyncFailed ==
    /\ pc = "failed"
    /\ pc' = "loop"
    /\ call' = NoCall
    /\ tick' = NoTick
    /\ UNCHANGED <<virtual_board, desync_frames, last_analyzed_board, streak,
                   vision, recent_reads, running, screen, analysis, gui>>
    /\ UNCHANGED sysVars

\* Mutant of IsMyTurn: no turn gating
IsMyTurn_Always(b) == TRUE

\* run(), step 5: current_turn == my_side_code
IsMyTurn(b) == b.turn = (IF Side = "white" THEN "w" ELSE "b")

\* Mutant of MemoAfter: the memo is kept whatever the answer is
MemoAfter_Kept(trusted, current_full_fen) == current_full_fen

\* run(), lines 224 to 247: the memo after the answer was checked
MemoAfter(trusted, current_full_fen) ==
    IF trusted THEN current_full_fen ELSE None

\* run(), steps 5 to 8 after a sync that returned True: the counter reset,
\* turn gating, the already-analyzed check, and engine.analyze with the
\* check of its answer (trusted: the move becomes the expected player move
\* and fen_updated is emitted; otherwise the memo is cleared)
AfterSync ==
    /\ pc = "synced"
    /\ desync_frames' = 0
    /\ call' = NoCall
    /\ UNCHANGED <<virtual_board, streak, recent_reads, running, screen, gui>>
    /\ IF ~IsMyTurn(virtual_board) THEN
           /\ pc' = "loop"
           /\ tick' = NoTick
           /\ UNCHANGED <<last_analyzed_board, vision, analysis>>
       ELSE \E current_full_fen \in {Fen(virtual_board)} :
           IF current_full_fen = last_analyzed_board THEN
               /\ pc' = "loop"
               /\ tick' = NoTick
               /\ UNCHANGED <<last_analyzed_board, vision, analysis>>
           ELSE \E moves \in {LegalMoves(virtual_board)} :
                \E best_move \in EngineAnswers :
                \E trusted \in {AnswerIsTrusted(best_move, moves)} :
                   /\ last_analyzed_board' = MemoAfter(trusted, current_full_fen)
                   /\ vision' =
                          IF trusted
                          THEN [vision EXCEPT !.expected_player_move_uci = best_move]
                          ELSE vision
                   /\ analysis' =
                          [called |-> TRUE, fen |-> current_full_fen,
                           best_move |-> best_move,
                           hint_set |-> trusted, fen_updated |-> trusted,
                           sync_ret |-> call.ret,
                           confirmed |-> call.part,
                           pre_last |-> last_analyzed_board,
                           pre_hint |-> vision.expected_player_move_uci]
                   /\ pc' = "analyzed"
                   /\ UNCHANGED tick
    /\ UNCHANGED sysVars

\* run(), the end of an iteration that called the engine: msleep and back to
\* the top of the loop
EndTick ==
    /\ pc = "analyzed"
    /\ pc' = "loop"
    /\ analysis' = NoAnalysis
    /\ tick' = NoTick
    /\ UNCHANGED <<virtual_board, desync_frames, last_analyzed_board, call,
                   streak, vision, recent_reads, running, screen, gui>>
    /\ UNCHANGED sysVars

Next == ResetState \/ SyncStep \/ SyncFailed \/ AfterSync \/ EndTick

Spec == Init /\ [][Next]_vars

\* ------------------------------------------------------------------------
\* The repeated-reading scenario: from a tracker that is in sync with a
\* counter of 0, one unrecognizable reading is confirmed tick after tick
\* ------------------------------------------------------------------------

\* Before the scenario: a tick whose reading is one legal move away
ScenarioMove ==
    /\ pc = "loop"
    /\ ~streak.on
    /\ Len(virtual_board.stack) < MaxScenarioPly
    /\ \E moves \in {LegalMoves(virtual_board)} :
       \E plies \in {Plies(virtual_board, moves, 1)} :
       \E board_part \in SuccessorFens(plies) :
           SyncCall(moves, plies, board_part)
    /\ UNCHANGED <<streak, visionVars, analysis>>
    /\ UNCHANGED sysVars

\* The screen starts to show the reading
ScenarioBegin ==
    /\ pc = "loop"
    /\ ~streak.on
    /\ desync_frames = 0
    /\ \E moves \in {LegalMoves(virtual_board)} :
       \E plies \in {Plies(virtual_board, moves, 1)} :
       \E board_part \in UnrecognizableReadings(virtual_board, plies) :
           streak' = [on |-> TRUE, part |-> board_part, ticks |-> 0,
                      attempts |-> 0, snaps |-> 0,
                      start_board |-> virtual_board]
    /\ UNCHANGED <<threadVars, visionVars, analysis>>
    /\ UNCHANGED sysVars

\* One more tick with the same confirmed reading
ScenarioTick ==
    /\ pc = "loop"
    /\ streak.on
    /\ streak.ticks < ScenarioTicks
    /\ \E moves \in {LegalMoves(virtual_board)} :
       \E plies \in {Plies(virtual_board, moves, 1)} :
           SyncCall(moves, plies, streak.part)
    /\ streak' = [streak EXCEPT
                    !.ticks = @ + 1,
                    !.attempts = @ + (IF call'.recovery THEN 1 ELSE 0),
                    !.snaps = @ + (IF call'.recovery /\ call'.ret THEN 1 ELSE 0)]
    /\ UNCHANGED <<visionVars, analysis>>
    /\ UNCHANGED sysVars

NextScenario ==
    ResetState \/ ScenarioMove \/ ScenarioBegin \/ ScenarioTick
    \/ SyncFailed \/ AfterSync \/ EndTick

SpecScenario == Init /\ [][NextScenario]_vars

\* ------------------------------------------------------------------------
\* The window and the polling loop on the frames of a game on the screen
\* ------------------------------------------------------------------------

\* The entries of the orientation combo box
Orientations == {"white", "black"}

\* The highlight ratio, in percent, a site gives the two squares of the last
\* move: none, or above the thresholds of the detector and of the baseline
HighlightLevels == {0, 30}

\* Mutant of AppendRead: a full window drops the new reading
AppendRead_DropsNewest(reads, board_part) ==
    IF Len(reads) >= WindowSize THEN reads ELSE Append(reads, board_part)

\* recent_reads.append(board_part), and pop(0) past WINDOW_SIZE
AppendRead(reads, board_part) ==
    LET r == Append(reads, board_part)
    IN  IF Len(r) > WindowSize THEN Tail(r) ELSE r

\* Counter(recent_reads): the count of an entry, and the index of its first
\* occurrence
CountIn(reads, part) == Cardinality({i \in 1 .. Len(reads) : reads[i] = part})
FirstIndex(reads, part) == CHOOSE i \in 1 .. Len(reads) :
                               reads[i] = part /\ \A j \in 1 .. i - 1 : reads[j] # part

\* most_common(1)[0]: the entry with the highest count, the first inserted
\* among equals
MostCommon(reads) ==
    LET i == CHOOSE k \in 1 .. Len(reads) :
                 /\ FirstIndex(reads, reads[k]) = k
                 /\ \A j \in 1 .. Len(reads) :
                        \/ CountIn(reads, reads[j]) < CountIn(reads, reads[k])
                        \/ /\ CountIn(reads, reads[j]) = CountIn(reads, reads[k])
                           /\ FirstIndex(reads, reads[j]) >= k
    IN  reads[i]

\* Mutant of GetMostCommonBoard: the newest reading is confirmed at once
GetMostCommonBoard_Newest(reads) ==
    IF reads = <<>> THEN None ELSE reads[Len(reads)]

\* _get_most_common_board
GetMostCommonBoard(reads) ==
    IF reads = <<>> THEN None
    ELSE IF CountIn(reads, MostCommon(reads)) >= ConfirmThreshold
         THEN MostCommon(reads)
         ELSE None

\* The frame capture_tool.capture returns
Frame == Render(screen.board, screen.pair, screen.level)

\* self.reset_state() as part of a larger operation
DoResetState ==
    /\ virtual_board' = StartBoard
    /\ desync_frames' = 0
    /\ last_analyzed_board' = None
    /\ call' = NoCall
    /\ recent_reads' = <<>>

\* A move is made in the game on the screen, the first or the second of the
\* legal moves; the site highlights the moves of a game or it does not
ScreenMove ==
    /\ pc = "loop"
    /\ Len(screen.board.stack) < MaxScreenPly
    /\ \E moves \in {LegalMoves(screen.board)} :
       \E i \in {1, 2} \cap (1 .. Len(moves)) :
       \E level \in (IF screen.board.stack = <<>> THEN HighlightLevels
                     ELSE {screen.level}) :
           screen' = [board |-> Push(screen.board, moves[i]),
                      pair |-> IF level = 0 THEN NoPair
                               ELSE {moves[i].from, moves[i].to},
                      level |-> level]
    /\ UNCHANGED <<threadVars, streak, vision, recent_reads, running, tick,
                   analysis, gui>>
    /\ UNCHANGED sysVars

\* calibrate_board()
CalibrateBoard ==
    /\ pc = "loop"
    /\ \E orientation \in Orientations :
       \E c \in {Calibrate(vision, Frame, orientation)} :
           /\ vision' = c.vision
           /\ gui' = [op |-> "calibrate", orientation |-> orientation,
                      ok |-> c.ok, msg |-> c.msg,
                      pre_vision |-> vision, pre_running |-> running]
           /\ IF c.ok THEN DoResetState
              ELSE UNCHANGED <<virtual_board, desync_frames, last_analyzed_board,
                               call, recent_reads>>
    /\ pc' = "gui"
    /\ UNCHANGED <<streak, running, screen, tick, analysis>>
    /\ UNCHANGED sysVars

\* start_analysis(), and run() up to its loop when the thread is started
StartAnalysis ==
    /\ pc = "loop"
    /\ \E orientation \in Orientations :
       \E started \in {/\ vision.is_calibrated
                       /\ OrientationSupported(orientation)
                       /\ ~running} :
           /\ gui' = [op |-> "start", orientation |-> orientation,
                      ok |-> started, msg |-> "",
                      pre_vision |-> vision, pre_running |-> running]
           /\ running' = (running \/ started)
           /\ IF started THEN DoResetState
              ELSE UNCHANGED <<virtual_board, desync_frames, last_analyzed_board,
                               call, recent_reads>>
    /\ pc' = "gui"
    /\ UNCHANGED <<streak, vision, screen, tick, analysis>>
    /\ UNCHANGED sysVars

\* stop_analysis(): the loop ends after the iteration it is in
StopAnalysis ==
    /\ pc = "loop"
    /\ running
    /\ running' = FALSE
    /\ UNCHANGED <<threadVars, streak, vision, recent_reads, screen, tick,
                   analysis, gui>>
    /\ UNCHANGED sysVars

\* get_board_state called with an orientation that is not the loop's
GetBoardStateCall ==
    /\ pc = "loop"
    /\ \E orientation \in Orientations \ {Side} :
       \E g \in {GetBoardState(vision, Frame, orientation)} :
           /\ vision' = g.vision
           /\ gui' = [op |-> "get_board_state", orientation |-> orientation,
                      ok |-> g.ret # None, msg |-> "", ret |-> g.ret,
                      pre_vision |-> vision, pre_running |-> running]
    /\ pc' = "gui"
    /\ UNCHANGED <<virtual_board, desync_frames, last_analyzed_board, call,
                   streak, recent_reads, running, screen, tick, analysis>>
    /\ UNCHANGED sysVars

\* The window operation has returned
GuiDone ==
    /\ pc = "gui"
    /\ pc' = "loop"
    /\ gui' = NoOp
    /\ UNCHANGED <<virtual_board, desync_frames, last_analyzed_board, call,
                   streak, vision, recent_reads, running, screen, tick, analysis>>
    /\ UNCHANGED sysVars

\* run(), steps 1 to 4 of an iteration: the frame, get_board_state, the
\* rolling window, and the sync with the confirmed reading; `limit` bounds
\* the counter
Pass(limit) ==
    /\ desync_frames < limit
    /\ \E g \in {GetBoardState(vision, Frame, Side)} :
           /\ vision' = g.vision
           /\ IF g.ret = None THEN
                  /\ recent_reads' = <<>>
                  /\ tick' = [made |-> TRUE, raw |-> None, pushes |-> g.pushes,
                              pre_reads |-> recent_reads, confirmed |-> None,
                              pre_vision |-> vision, pre_board |-> virtual_board,
                              pre_desync |-> desync_frames]
                  /\ pc' = "idle"
                  /\ UNCHANGED <<virtual_board, desync_frames,
                                 last_analyzed_board, call>>
              ELSE \E reads \in {AppendRead(recent_reads, g.ret[1])} :
                   \E confirmed_board \in {GetMostCommonBoard(reads)} :
                       /\ recent_reads' = reads
                       /\ tick' = [made |-> TRUE, raw |-> g.ret,
                                   pushes |-> g.pushes,
                                   pre_reads |-> recent_reads,
                                   confirmed |-> confirmed_board,
                                   pre_vision |-> vision,
                                   pre_board |-> virtual_board,
                                   pre_desync |-> desync_frames]
                       /\ IF confirmed_board = None THEN
                              /\ pc' = "idle"
                              /\ UNCHANGED <<virtual_board, desync_frames,
                                             last_analyzed_board, call>>
                          ELSE \E moves \in {LegalMoves(virtual_board)} :
                               \E plies \in {Plies(virtual_board, moves, 1)} :
                                   SyncCall(moves, plies, confirmed_board)
    /\ UNCHANGED <<streak, running, screen, analysis, gui>>
    /\ UNCHANGED sysVars

\* run(), lines 151 to 195: an iteration made in one step from the top of
\* the loop
Tick(limit) == pc = "loop" /\ running /\ Pass(limit)

\* run(), a tick without a reading or without a confirmed one: the loop
\* sleeps and continues
Continue ==
    /\ pc = "idle"
    /\ pc' = "loop"
    /\ tick' = NoTick
    /\ UNCHANGED <<virtual_board, desync_frames, last_analyzed_board, call,
                   streak, vision, recent_reads, running, screen, analysis, gui>>
    /\ UNCHANGED sysVars

RunTick == Tick(MaxStall)

NextRun ==
    ScreenMove \/ CalibrateBoard \/ StartAnalysis \/ StopAnalysis
    \/ GetBoardStateCall \/ GuiDone \/ RunTick \/ Continue
    \/ SyncFailed \/ AfterSync \/ EndTick

SpecRun == Init /\ [][NextRun]_vars
\* ------------------------------------------------------------------------
\* The restart scenario: one game is played on the screen, without
\* highlights, while the loop is started, stopped and started again, and
\* the counter may grow past the recovery threshold
\* ------------------------------------------------------------------------

\* The next move of the game: the first legal move of the position
ScreenLine ==
    /\ pc = "loop"
    /\ Len(screen.board.stack) < MaxRestartPly
    /\ \E moves \in {LegalMoves(screen.board)} :
           screen' = [board |-> Push(screen.board, moves[1]),
                      pair |-> NoPair, level |-> 0]
    /\ UNCHANGED <<threadVars, streak, vision, recent_reads, running, tick,
                   analysis, gui>>
    /\ UNCHANGED sysVars

RestartTick == Tick(MaxDesync)

NextRestart ==
    ScreenLine \/ CalibrateBoard \/ StartAnalysis \/ StopAnalysis \/ GuiDone
    \/ RestartTick \/ Continue \/ SyncFailed \/ AfterSync \/ EndTick

SpecRestart == Init /\ [][NextRestart]_vars

\* ------------------------------------------------------------------------
\* The declined-suggestion scenario: the user answers the first position
\* with the second legal move, not with the move the engine suggests for
\* it, the opponent replies with the second legal move, and the game goes
\* on with the first legal move of each position; the loop is started and
\* is not stopped
\* ------------------------------------------------------------------------

\* The next move of the game
ScreenDetour ==
    /\ pc = "loop"
    /\ Len(screen.board.stack) < MaxRestartPly
    /\ \E moves \in {LegalMoves(screen.board)} :
       \E i \in {IF Len(screen.board.stack) < 2 /\ Len(moves) > 1 THEN 2 ELSE 1} :
           screen' = [board |-> Push(screen.board, moves[i]),
                      pair |-> NoPair, level |-> 0]
    /\ UNCHANGED <<threadVars, streak, vision, recent_reads, running, tick,
                   analysis, gui>>
    /\ UNCHANGED sysVars

NextHint ==
    ScreenDetour \/ CalibrateBoard \/ StartAnalysis \/ GuiDone
    \/ RunTick \/ Continue \/ SyncFailed \/ AfterSync \/ EndTick

SpecHint == Init /\ [][NextHint]_vars

\* ------------------------------------------------------------------------
\* The settled-reading scenario: from some tick on get_board_state returns
\* one placement on every tick, whatever the loop tracked before, and the
\* loop keeps running
\* ------------------------------------------------------------------------

\* The positions of the games of at most n plies in which every move is the
\* first or the second legal move
RECURSIVE Lines(_)
Lines(n) ==
    IF n = 0 THEN {StartBoard}
    ELSE LET S == Lines(n - 1)
         IN  S \cup UNION {{Push(b, LegalMoves(b)[i]) :
                              i \in {1, 2} \cap (1 .. Len(LegalMoves(b)))} : b \in S}

\* The loop before the reading settles: it tracks some position, its window
\* is empty or holds readings of that position, and its counter is 0 or at
\* the threshold; `streak.part` is the placement returned from now on
InitSettle ==
    /\ virtual_board \in Lines(MaxScenarioPly)
    /\ streak \in {[on |-> TRUE, part |-> BoardFen(b)] : b \in Lines(MaxScreenPly)}
    /\ desync_frames \in {0, DesyncThreshold}
    /\ recent_reads \in {<<>>, [i \in 1 .. 3 |-> BoardFen(virtual_board)]}
    /\ last_analyzed_board = None
    /\ pc = "loop"
    /\ call = NoCall
    /\ vision = InitVision
    /\ running = TRUE
    /\ screen = InitScreen
    /\ tick = NoTick
    /\ analysis = NoAnalysis
    /\ gui = NoOp
    /\ win = InitWindow
    /\ loop = NoLoop
    /\ eng = NoEngine

\* run(), steps 2 to 4 of an iteration in which get_board_state returns the
\* settled placement
SettleTick ==
    /\ pc = "loop"
    /\ running
    /\ desync_frames < MaxDesync
    /\ \E reads \in {AppendRead(recent_reads, streak.part)} :
       \E confirmed_board \in {GetMostCommonBoard(reads)} :
           /\ recent_reads' = reads
           /\ tick' = [made |-> TRUE, raw |-> streak.part,
                       pre_reads |-> recent_reads,
                       confirmed |-> confirmed_board,
                       pre_board |-> virtual_board,
                       pre_desync |-> desync_frames]
           /\ IF confirmed_board = None THEN
                  /\ pc' = "idle"
                  /\ UNCHANGED <<virtual_board, desync_frames,
                                 last_analyzed_board, call>>
              ELSE \E moves \in {LegalMoves(virtual_board)} :
                   \E plies \in {Plies(virtual_board, moves, 1)} :
                       SyncCall(moves, plies, confirmed_board)
    /\ UNCHANGED <<streak, vision, running, screen, analysis, gui>>
    /\ UNCHANGED sysVars

NextSettle == SettleTick \/ Continue \/ SyncFailed \/ AfterSync \/ EndTick

\* run() moves on to another of its positions
LoopRuns ==
    /\ pc' \in {"loop", "idle", "synced", "failed", "analyzed"}
    /\ pc' # pc

\* The loop keeps running: run() is never stopped for good at a position it
\* can leave
SpecSettle == InitSettle /\ [][NextSettle]_vars /\ WF_pc(LoopRuns)

\* ------------------------------------------------------------------------
\* The GUI thread and the analysis thread, statement by statement: the
\* handlers of the window run on the GUI thread, one at a time, while run()
\* moves through an iteration on the analysis thread.  The screen shows the
\* start position.  `pc` is the position of run(): "none" (never started),
\* "starting" (start() called, run() not yet entered), "loop" (the while
\* test), "capture", "frame" (a frame was captured), the positions after the
\* sync, "finished" (run() returned), "crashed" (an exception left run()).
\* ------------------------------------------------------------------------

\* Mutant of IsRunning: the thread never counts as running
IsRunning_Never(at) == FALSE

\* QThread.isRunning(): start() was called and run() has not ended
IsRunning(at) == at \notin {"none", "finished", "crashed"}

\* ControlWindow.__init__ and AnalysisThread.__init__
InitThreads ==
    /\ virtual_board = StartBoard
    /\ desync_frames = 0
    /\ last_analyzed_board = None
    /\ pc = "none"
    /\ call = NoCall
    /\ streak = NoStreak
    /\ vision = InitVision
    /\ recent_reads = <<>>
    /\ running = FALSE
    /\ screen = InitScreen
    /\ tick = NoTick
    /\ analysis = NoAnalysis
    /\ gui = NoOp
    /\ win = InitWindow
    /\ loop = NoLoop
    /\ eng = NoEngine

\* select_area(): the overlay goes into selection mode
SelectArea ==
    /\ win.at = "idle"
    /\ win' = [win EXCEPT !.selecting = TRUE]
    /\ gui' = [op |-> "select_area"]
    /\ UNCHANGED <<threadVars, streak, vision, recent_reads, running, screen,
                   tick, analysis, loop, eng>>

\* on_area_selected(rect), on the mouse release that ends a selection
OnAreaSelected ==
    /\ win.at = "idle"
    /\ win.selecting
    /\ win' = [win EXCEPT !.selecting = FALSE, !.selected_rect = TRUE,
                          !.btn_calibrate = TRUE]
    /\ gui' = [op |-> "area_selected"]
    /\ UNCHANGED <<threadVars, streak, vision, recent_reads, running, screen,
                   tick, analysis, loop, eng>>

\* The user picks the other entry of the orientation combo box
ComboSide ==
    /\ win.at = "idle"
    /\ \E orientation \in Orientations \ {win.combo_side} :
           win' = [win EXCEPT !.combo_side = orientation]
    /\ gui' = [op |-> "combo_side"]
    /\ UNCHANGED <<threadVars, streak, vision, recent_reads, running, screen,
                   tick, analysis, loop, eng>>

\* calibrate_board() up to the first statement of vision.calibrate, which
\* is self._reset()
CalibrateEnter ==
    /\ win.at = "idle"
    /\ win.btn_calibrate
    /\ IF ~win.selected_rect
       THEN UNCHANGED <<win, vision>>
       ELSE /\ win' = [win EXCEPT !.at = "calibrate"]
            /\ vision' = ResetVision(vision)
    /\ gui' = [op |-> "calibrate"]
    /\ UNCHANGED <<threadVars, streak, recent_reads, running, screen, tick,
                   analysis, loop, eng>>

\* calibrate_board(), the rest of vision.calibrate and what follows it:
\* reset_state() and the start button
CalibrateLeave ==
    /\ win.at = "calibrate"
    /\ \E c \in {Calibrate(vision, Frame, win.combo_side)} :
           /\ vision' = c.vision
           /\ win' = [win EXCEPT !.at = "idle", !.btn_start = c.ok]
           /\ IF c.ok
              THEN /\ virtual_board' = StartBoard
                   /\ desync_frames' = 0
                   /\ last_analyzed_board' = None
                   /\ recent_reads' = <<>>
              ELSE UNCHANGED <<virtual_board, desync_frames,
                               last_analyzed_board, recent_reads>>
    /\ UNCHANGED <<pc, call, streak, running, screen, tick, analysis, gui,
                   loop, eng>>

\* start_analysis(): the three refusals, then the buttons and
\* analysis_thread.start()
StartClicked ==
    /\ win.at = "idle"
    /\ win.btn_start
    /\ \E started \in {/\ vision.is_calibrated
                       /\ OrientationSupported(win.combo_side)
                       /\ ~IsRunning(pc)} :
           /\ gui' = [op |-> "start", ok |-> started, pre_active |-> loop.active]
           /\ IF started
              THEN /\ win' = [win EXCEPT !.btn_start = FALSE, !.btn_stop = TRUE,
                                         !.btn_calibrate = FALSE]
                   /\ pc' = "starting"
                   /\ loop' = [active |-> loop.active + 1, failed |-> FALSE]
              ELSE UNCHANGED <<win, pc, loop>>
    /\ UNCHANGED <<virtual_board, desync_frames, last_analyzed_board, call,
                   streak, vision, recent_reads, running, screen, tick,
                   analysis, eng>>

\* stop_analysis() up to the wait() in AnalysisThread.stop()
StopClicked ==
    /\ win.at = "idle"
    /\ win.btn_stop
    /\ running' = FALSE
    /\ win' = [win EXCEPT !.at = "stop_wait"]
    /\ gui' = [op |-> "stop"]
    /\ UNCHANGED <<threadVars, streak, vision, recent_reads, screen, tick,
                   analysis, loop, eng>>

\* wait() returns once the thread has ended; stop_analysis() sets the
\* buttons
StopReturn ==
    /\ win.at = "stop_wait"
    /\ ~IsRunning(pc)
    /\ win' = [win EXCEPT !.at = "idle", !.btn_start = TRUE,
                          !.btn_stop = FALSE, !.btn_calibrate = TRUE]
    /\ UNCHANGED <<threadVars, streak, vision, recent_reads, running, screen,
                   tick, analysis, gui, loop, eng>>

\* run(), lines 148 and 149: self.running = True and reset_state()
RunBegin ==
    /\ pc = "starting"
    /\ running' = TRUE
    /\ DoResetState
    /\ pc' = "loop"
    /\ UNCHANGED <<streak, vision, screen, tick, analysis, gui, sysVars>>

\* run(), line 151: the while test; run() returns when the flag is cleared
LoopCheck ==
    /\ pc = "loop"
    /\ IF running
       THEN pc' = "capture" /\ UNCHANGED loop
       ELSE pc' = "finished" /\ loop' = [loop EXCEPT !.active = @ - 1]
    /\ UNCHANGED <<virtual_board, desync_frames, last_analyzed_board, call,
                   streak, vision, recent_reads, running, screen, tick,
                   analysis, gui, win, eng>>

\* run(), line 161: capture_tool.capture(region) returns a frame or raises;
\* nothing in run() catches the exception, which ends the thread
CaptureFrame ==
    /\ pc = "capture"
    /\ \E captured \in BOOLEAN :
           IF captured
           THEN pc' = "frame" /\ UNCHANGED loop
           ELSE pc' = "crashed"
                /\ loop' = [active |-> loop.active - 1, failed |-> TRUE]
    /\ UNCHANGED <<virtual_board, desync_frames, last_analyzed_board, call,
                   streak, vision, recent_reads, running, screen, tick,
                   analysis, gui, win, eng>>

\* run(), lines 164 to 195 on the captured frame
FramePass == pc = "frame" /\ Pass(MaxStall)

NextThreads ==
    SelectArea \/ OnAreaSelected \/ ComboSide \/ CalibrateEnter
    \/ CalibrateLeave \/ StartClicked \/ StopClicked \/ StopReturn
    \/ RunBegin \/ LoopCheck \/ CaptureFrame \/ FramePass
    \/ Continue \/ AfterSync \/ EndTick

SpecThreads == InitThreads /\ [][NextThreads]_vars

\* ------------------------------------------------------------------------
\* ChessEngine: the sanity check of analyze, the lock, the output queue and
\* the waits on the engine process
\* ------------------------------------------------------------------------

\* The number of ranks and of squares per rank _is_sane_fen asks for
EngineRanks == 8
EngineFiles == 8

\* set("prnbqkPRNBQK12345678")
EngineValidChars == PieceChars \cup {"1", "2", "3", "4", "5", "6", "7", "8"}

\* str.split(sep): the pieces between the separators, empty ones included
RECURSIVE SplitOn(_, _, _, _)
SplitOn(s, sep, i, cur) ==
    IF i > Len(s) THEN <<cur>>
    ELSE IF s[i] = sep THEN <<cur>> \o SplitOn(s, sep, i + 1, <<>>)
    ELSE SplitOn(s, sep, i + 1, Append(cur, s[i]))

\* fen.split(): the fields between runs of blanks
Fields(s) == SelectSeq(SplitOn(s, " ", 1, <<>>), LAMBDA f : f # <<>>)

\* The inner loop of _is_sane_fen over one row: the squares counted so far,
\* or -1 once a character is not valid
RECURSIVE RowSquares(_, _, _)
RowSquares(row, i, squares) ==
    IF i > Len(row) THEN squares
    ELSE IF row[i] \notin EngineValidChars THEN -1
    ELSE IF IsDigit(row[i]) THEN RowSquares(row, i + 1, squares + DigitVal(row[i]))
    ELSE RowSquares(row, i + 1, squares + 1)

\* Mutant of IsSaneFen: the kings are not counted
IsSaneFen_KingsNotCounted(fen) ==
    LET parts == Fields(fen)
        rows == SplitOn(parts[1], "/", 1, <<>>)
    IN  /\ Len(parts) >= 1
        /\ Len(rows) = EngineRanks
        /\ \A r \in 1 .. Len(rows) : RowSquares(rows[r], 1, 0) = EngineFiles

\* _is_sane_fen(fen); None (on which split raises) is the empty sequence
IsSaneFen(fen) ==
    LET parts == Fields(fen)
        board_part == parts[1]
        rows == SplitOn(board_part, "/", 1, <<>>)
    IN  IF Len(parts) < 1 THEN FALSE
        ELSE IF CountChar(board_part, "K") # 1 \/ CountChar(board_part, "k") # 1
        THEN FALSE
        ELSE IF Len(rows) # EngineRanks THEN FALSE
        ELSE \A r \in 1 .. Len(rows) : RowSquares(rows[r], 1, 0) = EngineFiles

\* The FENs analyze is called with: None, and placements whose first or last
\* rank varies (a king missing or doubled, a square too few or too many, a
\* letter that is no piece), of 7, 8 or 9 ranks, the other ranks empty, alone
\* or followed by the other five fields
FirstRanks ==
    {<<"k", "7">>, <<"8">>, <<"k", "k", "6">>, <<"k", "6">>, <<"k", "8">>,
     <<"k", "x", "6">>}
LastRanks == {<<"3", "K", "3", "1">>, <<"8">>}
FenTail == <<" ", "w", " ", "-", " ", "-", " ", "0", " ", "1">>

RECURSIVE EmptyRanks(_)
EmptyRanks(n) == IF n = 0 THEN <<>> ELSE <<"/", "8">> \o EmptyRanks(n - 1)

GoodFirst == <<"k", "7">>
GoodLast == <<"K", "7">>

FenText(first, last, n, tail) == first \o EmptyRanks(n - 2) \o <<"/">> \o last \o tail

FenInputs ==
    {None} \cup
    {FenText(first, GoodLast, EngineRanks, <<>>) : first \in FirstRanks} \cup
    {FenText(GoodFirst, last, EngineRanks, FenTail) : last \in LastRanks} \cup
    {FenText(GoodFirst, GoodLast, n, <<>>) :
        n \in {EngineRanks - 1, EngineRanks + 1}}

\* The inputs _is_sane_fen lets through
SaneFens == {fen \in FenInputs : IsSaneFen(fen)}

\* The bounds of the engine's runs: the calls made, the lines the queue holds
\* before the process stops writing, the lines one wait skips before its
\* deadline passes
MaxCalls == 2
MaxQueue == 1
MaxLines == 2

\* The lines the process writes, as words; the last word of a bestmove line
\* is the number of the go command it answers (0: not known)
EngineLines ==
    {<<"uciok">>, <<"readyok">>, <<"bestmove", "e2e4", 0>>,
     <<"bestmove", "(none)", 0>>}

\* The commands the process answers with a line
Answered == {"uci", "isready", "go"}

\* _is_alive
IsAlive(e) == e.process = "alive"

\* Mutant of LockFree: the lock never holds anybody back
LockFree_Always(lock) == TRUE

\* threading.Lock: acquired only while nobody holds it
LockFree(lock) == lock = "free"

\* Mutant of CanTimeOut: a read that blocks until a line arrives
CanTimeOut_Never(queue) == FALSE

\* _read_line: queue.get(timeout) gives up once the queue has stayed empty
CanTimeOut(queue) == queue = <<>>

\* _send: writes only to a live process
Send(e, c, command) ==
    IF ~IsAlive(e) THEN e
    ELSE IF e.inorder /\ command \in Answered
    THEN LET n == IF command = "go" THEN e.gos + 1 ELSE 0
         IN  [e EXCEPT !.th[c].sent = TRUE, !.gos = IF command = "go" THEN n ELSE @,
                       !.stdin = Append(@, <<command, n>>)]
    ELSE [e EXCEPT !.th[c].sent = TRUE]

\* _cleanup_process: kills the process if there is one; the reader of a
\* process that was alive meets the end of its output
CleanupProcess(e, c) ==
    [e EXCEPT !.process = "none", !.stdin = <<>>,
              !.eof = IF IsAlive(e) THEN @ + 1 ELSE @,
              !.th[c].touched = @ \/ e.process # "none"]

\* Leaving the with block and returning ret
Return(e, c, ret) ==
    [e EXCEPT !.lock = "free",
              !.th[c].op = "idle", !.th[c].at = "idle", !.th[c].reads = 0,
              !.th[c].ret = ret, !.th[c].done = e.th[c].op]

\* Mutant of Position: go is written with the position, and no readyok is
\* waited for
Position_NoReadyWait(e, c) ==
    [Send(Send([e EXCEPT !.queue = <<>>], c, "position"), c, "go") EXCEPT
        !.th[c].at = "bestmove", !.th[c].reads = 0]

\* analyze from the drain of the queue to the wait on readyok
Position(e, c) ==
    [Send(Send([e EXCEPT !.queue = <<>>], c, "position"), c, "isready") EXCEPT
        !.th[c].at = "readyok", !.th[c].reads = 0]

\* What follows _start_internal: start returns, analyze goes on if the
\* process is alive
AfterStart(e, c) ==
    IF e.th[c].op = "start" THEN Return(e, c, NoResult)
    ELSE IF ~IsAlive(e) THEN Return(e, c, NoResult)
    ELSE Position(e, c)

\* _start_internal up to the wait on uciok; Popen may raise
StartInternal(e, c, spawned) ==
    LET k == CleanupProcess(e, c)
    IN  IF spawned
        THEN [Send([k EXCEPT !.process = "alive", !.queue = <<>>,
                             !.th[c].touched = TRUE], c, "uci") EXCEPT
                !.th[c].at = "uciok", !.th[c].reads = 0]
        ELSE AfterStart(k, c)

\* The token each wait looks for
Token(at) ==
    CASE at = "uciok" -> "uciok"
      [] at \in {"readyok0", "readyok"} -> "readyok"
      [] OTHER -> "bestmove"

WaitPositions == {"uciok", "readyok0", "readyok", "bestmove", "stopdrain"}

\* What follows a wait that returned line (None: sentinel or timeout)
Resume(e, c, line) ==
    LET at == e.th[c].at
    IN  CASE at = "uciok" ->
                IF line = None THEN AfterStart(CleanupProcess(e, c), c)
                ELSE [Send(e, c, "isready") EXCEPT
                        !.th[c].at = "readyok0", !.th[c].reads = 0]
          [] at = "readyok0" ->
                IF line = None THEN AfterStart(CleanupProcess(e, c), c)
                ELSE AfterStart(e, c)
          [] at = "readyok" ->
                IF line = None THEN Return(CleanupProcess(e, c), c, NoResult)
                ELSE [Send(e, c, "go") EXCEPT
                        !.th[c].at = "bestmove", !.th[c].reads = 0]
          [] at = "bestmove" ->
                IF line # None /\ Len(line) >= 2 /\ line[2] # "(none)"
                THEN Return(e, c, line[2])
                ELSE IF ~IsAlive(e) THEN Return(e, c, NoResult)
                ELSE [Send(e, c, "stop") EXCEPT
                        !.th[c].at = "stopdrain", !.th[c].reads = 0]
          [] OTHER -> Return(e, c, NoResult)

otherVars ==
    <<virtual_board, desync_frames, last_analyzed_board, pc, call, streak,
      vision, recent_reads, running, screen, tick, analysis, gui, win, loop>>

InitEngine ==
    /\ virtual_board = StartBoard
    /\ desync_frames = 0
    /\ last_analyzed_board = None
    /\ pc = "none"
    /\ call = NoCall
    /\ streak = NoStreak
    /\ vision = InitVision
    /\ recent_reads = <<>>
    /\ running = FALSE
    /\ screen = InitScreen
    /\ tick = NoTick
    /\ analysis = NoAnalysis
    /\ gui = NoOp
    /\ win = InitWindow
    /\ loop = NoLoop
    /\ eng = NoEngine

\* The window calls start() and stop()
CallStart ==
    /\ eng.th["gui"].at = "idle"
    /\ eng.calls < MaxCalls
    /\ eng' = [eng EXCEPT !.calls = @ + 1,
                          !.th["gui"] = [IdleCall EXCEPT !.op = "start", !.at = "lock"]]
    /\ UNCHANGED otherVars

CallStop ==
    /\ eng.th["gui"].at = "idle"
    /\ eng.calls < MaxCalls
    /\ eng' = [eng EXCEPT !.calls = @ + 1,
                          !.th["gui"] = [IdleCall EXCEPT !.op = "stop", !.at = "lock"]]
    /\ UNCHANGED otherVars

\* The analysis thread calls analyze(fen): a FEN that is not sane returns
\* None at once, a sane one goes on to the lock
CallAnalyze ==
    /\ eng.th["loop"].at = "idle"
    /\ eng.calls < MaxCalls
    /\ \E fen \in FenInputs :
          eng' = [eng EXCEPT
                    !.calls = @ + 1,
                    !.th["loop"] =
                        IF fen \notin SaneFens
                        THEN [IdleCall EXCEPT !.fen = fen, !.done = "analyze"]
                        ELSE [IdleCall EXCEPT !.op = "analyze", !.at = "lock",
                                              !.fen = fen]]
    /\ UNCHANGED otherVars

\* with self._lock, and the body down to its first wait
Acquire(c) ==
    /\ eng.th[c].at = "lock"
    /\ LockFree(eng.lock)
    /\ LET e == [eng EXCEPT !.lock = c]
           op == eng.th[c].op
       IN  \E spawned \in BOOLEAN :
              eng' = CASE op = "start" -> StartInternal(e, c, spawned)
                       [] op = "stop" ->
                            IF IsAlive(e)
                            THEN [Send(e, c, "quit") EXCEPT !.th[c].at = "quit"]
                            ELSE Return(CleanupProcess(e, c), c, NoResult)
                       [] OTHER ->
                            IF ~IsAlive(e) THEN StartInternal(e, c, spawned)
                            ELSE Position(e, c)
    /\ UNCHANGED otherVars

\* One turn of the loop of _wait_for: a line of the queue (the sentinel
\* ends the wait, a line that starts with the token ends it, any other is
\* skipped until the deadline), or the timeout of an empty queue
WaitStep(c) ==
    /\ eng.th[c].at \in WaitPositions
    /\ IF eng.queue # <<>>
       THEN LET line == Head(eng.queue)
                e == [eng EXCEPT !.queue = Tail(@)]
            IN  \E late \in BOOLEAN :
                   eng' = IF line = None THEN Resume(e, c, None)
                          ELSE IF line[1] = Token(eng.th[c].at) THEN Resume(e, c, line)
                          ELSE IF ~late /\ eng.th[c].reads + 1 < MaxLines
                          THEN [e EXCEPT !.th[c].reads = @ + 1,
                                         !.th[c].skipped =
                                             IF line[1] = "bestmove" THEN line[3]
                                             ELSE @]
                          ELSE Resume(e, c, None)
       ELSE /\ CanTimeOut(eng.queue)
            /\ eng' = Resume(eng, c, None)
    /\ UNCHANGED otherVars

\* stop after quit: process.wait(timeout=3) returns or raises, and the
\* process is cleaned up either way
QuitWait(c) ==
    /\ eng.th[c].at = "quit"
    /\ eng' = Return(CleanupProcess(eng, c), c, NoResult)
    /\ UNCHANGED otherVars

\* The process writes a line, which its reader thread puts in the queue
EngineWrites ==
    /\ IsAlive(eng)
    /\ Len(eng.queue) < MaxQueue
    /\ \E line \in EngineLines : eng' = [eng EXCEPT !.queue = Append(@, line)]
    /\ UNCHANGED otherVars

\* The process exits or crashes on its own
EngineDies ==
    /\ IsAlive(eng)
    /\ eng' = [eng EXCEPT !.process = "dead", !.eof = @ + 1, !.stdin = <<>>]
    /\ UNCHANGED otherVars

\* _reader_loop at the end of the output: the sentinel goes into the queue
\* the engine holds at that moment
ReaderEof ==
    /\ eng.eof > 0
    /\ eng' = [eng EXCEPT !.eof = @ - 1, !.queue = Append(@, None)]
    /\ UNCHANGED otherVars

ClientStep(c) == Acquire(c) \/ WaitStep(c) \/ QuitWait(c)

NextEngine ==
    \/ CallStart
    \/ CallStop
    \/ CallAnalyze
    \/ \E c \in Clients : Acquire(c)
    \/ \E c \in Clients : WaitStep(c)
    \/ \E c \in Clients : QuitWait(c)
    \/ EngineWrites
    \/ EngineDies
    \/ ReaderEof

\* A thread that can take its next step takes it
SpecEngine ==
    /\ InitEngine
    /\ [][NextEngine]_vars
    /\ \A c \in Clients : WF_vars(ClientStep(c))

\* ------------------------------------------------------------------------
\* The engine that answers in order: the process answers the commands it is
\* sent one at a time and in the order they were written, uci with uciok,
\* isready with readyok, go with one bestmove line; a client may still give
\* up a wait before the answer comes
\* ------------------------------------------------------------------------

\* The lines that may answer a command
Reply(command) ==
    CASE command[1] = "uci" -> {<<"uciok">>}
      [] command[1] = "isready" -> {<<"readyok">>}
      [] OTHER -> {<<"bestmove", "e2e4", command[2]>>,
                   <<"bestmove", "(none)", command[2]>>}

InitUci ==
    /\ virtual_board = StartBoard
    /\ desync_frames = 0
    /\ last_analyzed_board = None
    /\ pc = "none"
    /\ call = NoCall
    /\ streak = NoStreak
    /\ vision = InitVision
    /\ recent_reads = <<>>
    /\ running = FALSE
    /\ screen = InitScreen
    /\ tick = NoTick
    /\ analysis = NoAnalysis
    /\ gui = NoOp
    /\ win = InitWindow
    /\ loop = NoLoop
    /\ eng = [NoEngine EXCEPT !.inorder = TRUE]

\* The process answers the oldest command it has not answered, and its
\* reader thread puts the line in the queue
EngineReplies ==
    /\ IsAlive(eng)
    /\ eng.stdin # <<>>
    /\ Len(eng.queue) < MaxQueue
    /\ \E line \in Reply(Head(eng.stdin)) :
           eng' = [eng EXCEPT !.stdin = Tail(@), !.queue = Append(@, line)]
    /\ UNCHANGED otherVars

NextUci ==
    \/ CallStart
    \/ CallStop
    \/ CallAnalyze
    \/ \E c \in Clients : Acquire(c)
    \/ \E c \in Clients : WaitStep(c)
    \/ \E c \in Clients : QuitWait(c)
    \/ EngineReplies
    \/ EngineDies
    \/ ReaderEof

SpecUci == InitUci /\ [][NextUci]_vars

\* ------------------------------------------------------------------------
\* Properties
\* ------------------------------------------------------------------------

\* The placement after the i-th legal move of the position the call started
\* from
SuccessorFen(i) == BoardFen(Push(call.pre_board, call.pre_moves[i]))
MoveIndexes == 1 .. Len(call.pre_moves)

\* The pre-filter in the words of the specification
FailsPreFilter(part) ==
    \/ CountChar(part, "K") # 1
    \/ CountChar(part, "k") # 1
    \/ CountChar(part, "P") > 8
    \/ CountChar(part, "p") > 8
    \/ CountAlpha(part) > 32

\* The reading, with side s to move, is a valid position
ValidWith(part, s) ==
    BoardFromFen(part, s).ok /\ IsValid(BoardFromFen(part, s).board)

Recoverable(part) == ValidWith(part, "w") \/ ValidWith(part, "b")

\* C1: when the reading is the placement after a legal move m of the tracked
\* position P, the call returns True and leaves virtual_board equal to P with
\* exactly m pushed (that placement, the side to move flipped).
C1_SinglePlyAdvances ==
    call.made =>
        \A i \in MoveIndexes :
            call.part = SuccessorFen(i) =>
                /\ call.ret
                /\ virtual_board = Push(call.pre_board, call.pre_moves[i])
                /\ BoardFen(virtual_board) = call.part
                /\ virtual_board.turn = Other(call.pre_board.turn)
                /\ Len(virtual_board.stack) = Len(call.pre_board.stack) + 1

\* A black reply, a capture, was recognized on a board that already held a move.
C1_Witness ==
    /\ call.made /\ call.ret
    /\ \E i \in MoveIndexes :
        /\ call.part = SuccessorFen(i)
        /\ virtual_board = Push(call.pre_board, call.pre_moves[i])
        /\ call.pre_board.sq[call.pre_moves[i].to] # Empty
    /\ Len(virtual_board.stack) = 2

\* C2: the tracked position is always a valid position; a call leaves it
\* unchanged, or with one of its legal moves pushed, or replaced by the valid
\* position the recovery snap built from the reading; a call that returns
\* False leaves no move pushed.
C2_TrackedPositionLegal ==
    /\ IsValid(virtual_board)
    /\ call.made =>
        /\ \/ virtual_board = call.pre_board
           \/ \E i \in MoveIndexes :
                  virtual_board = Push(call.pre_board, call.pre_moves[i])
           \/ /\ call.recovery /\ call.ret
              /\ BoardFen(virtual_board) = call.part
              /\ virtual_board.stack = <<>>
        /\ ~call.ret => virtual_board = call.pre_board
    /\ ~call.made /\ pc = "loop" /\ desync_frames = 0 /\ virtual_board.stack = <<>>
         => \/ virtual_board = StartBoard
            \/ Recoverable(BoardFen(virtual_board))

\* The search went through every legal move of a position that has some and
\* matched none.
C2_Witness ==
    /\ call.made /\ ~call.ret
    /\ ~FailsPreFilter(call.part)
    /\ Len(call.pre_moves) > 1
    /\ virtual_board = call.pre_board
    /\ Len(virtual_board.stack) > 0

\* C3: a call that returns False leaves the counter one greater than before,
\* a call that returns True leaves it 0.
C3_DesyncCounter ==
    call.made =>
        IF call.ret THEN desync_frames = 0
        ELSE desync_frames = call.pre_desync + 1

\* A failed call past the threshold: the snap was tried and the counter grew.
C3_Witness ==
    /\ call.made /\ ~call.ret /\ call.recovery
    /\ call.pre_desync > 45
    /\ desync_frames = call.pre_desync + 1

\* C4 (as claimed): a reading that passes the pre-filter, differs from the
\* tracked placement in 1 or 2 squares and is matched no better by any legal
\* move is accepted as a no-op: True, position unchanged, counter 0.
C4_FuzzyNoOp ==
    ( /\ call.made
      /\ ~FailsPreFilter(call.part)
      /\ BoardDiffCount(call.part, BoardFen(call.pre_board)) \in {1, 2}
      /\ \A i \in MoveIndexes :
            BoardDiffCount(SuccessorFen(i), call.part)
                >= BoardDiffCount(call.part, BoardFen(call.pre_board)) )
    => /\ call.ret
       /\ virtual_board = call.pre_board
       /\ desync_frames = 0

\* C5 (as claimed): a reading that passes the pre-filter, is no exact
\* successor placement and is more than 2 squares from the tracked placement
\* but within 2 squares of a successor, makes the call commit the closest
\* legal move, return True and reset the counter.
C5_FuzzyLegalPly ==
    ( /\ call.made
      /\ ~FailsPreFilter(call.part)
      /\ BoardDiffCount(call.part, BoardFen(call.pre_board)) > 2
      /\ \A i \in MoveIndexes : call.part # SuccessorFen(i)
      /\ \E i \in MoveIndexes : BoardDiffCount(SuccessorFen(i), call.part) <= 2 )
    => /\ call.ret
       /\ desync_frames = 0
       /\ \E i \in MoveIndexes :
            /\ virtual_board = Push(call.pre_board, call.pre_moves[i])
            /\ \A j \in MoveIndexes :
                 BoardDiffCount(SuccessorFen(i), call.part)
                    <= BoardDiffCount(SuccessorFen(j), call.part)

\* C6: a reading without exactly one 'K' and exactly one 'k' makes the call
\* return False with the position unchanged, no move_detected and no
\* recovery attempt, whatever the counter.
C6_KingCountRejected ==
    ( /\ call.made
      /\ (CountChar(call.part, "K") # 1 \/ CountChar(call.part, "k") # 1) )
    => /\ ~call.ret
       /\ virtual_board = call.pre_board
       /\ call.emitted = 0
       /\ ~call.recovery

\* A reading with two black kings arrives when the counter is past 45.
C6_Witness ==
    /\ call.made
    /\ call.part = TwoBlackKings
    /\ call.pre_desync > 45
    /\ ~call.ret

C8_RecoveryOnlyPastThreshold ==
    /\ (call.made /\ call.recovery) =>
        /\ ~FailsPreFilter(call.part)
        /\ call.part # BoardFen(call.pre_board)
        /\ \A i \in MoveIndexes : call.part # SuccessorFen(i)
        /\ call.pre_desync + 1 > 45
        /\ call.ret <=> Recoverable(call.part)
    /\ (call.made /\ call.recovery /\ call.ret) =>
        /\ IsValid(virtual_board)
        /\ BoardFen(virtual_board) = call.part
        /\ virtual_board.turn = IF ValidWith(call.part, "w") THEN "w" ELSE "b"
        /\ virtual_board.stack = <<>>
        /\ desync_frames = 0
        /\ last_analyzed_board = None

\* The snap succeeded with black to move and cleared a memo that was set.
C8_Witness ==
    /\ call.made /\ call.recovery /\ call.ret
    /\ virtual_board.turn = "b"
    /\ call.pre_last # None
    /\ last_analyzed_board = None

\* C9 (as claimed): after 50 ticks of one unrecognizable reading that passes
\* the pre-filter, the snap was attempted exactly once, and the position was
\* replaced only if the reading is valid with some side to move.
C9_RecoveryFiresOnce ==
    (streak.on /\ streak.ticks = ScenarioTicks /\ ~FailsPreFilter(streak.part))
    => /\ streak.attempts = 1
       /\ virtual_board # streak.start_board => Recoverable(streak.part)

\* C9 (amended): the snap is never attempted during the first 45 ticks and
\* never for a reading that fails the pre-filter; for a reading that is valid
\* with some side to move it is attempted once, on tick 46, and replaces the
\* position; for any other reading it is attempted on tick 46 and again on
\* every later tick, and the position is never replaced.
C9_RecoveryFromTick46 ==
    streak.on =>
        LET t == streak.ticks
        IN  IF FailsPreFilter(streak.part) THEN
                /\ streak.attempts = 0
                /\ virtual_board = streak.start_board
            ELSE IF Recoverable(streak.part) THEN
                /\ streak.attempts = (IF t >= 46 THEN 1 ELSE 0)
                /\ streak.snaps = streak.attempts
                /\ IF t >= 46 THEN BoardFen(virtual_board) = streak.part
                   ELSE virtual_board = streak.start_board
            ELSE
                /\ streak.attempts = (IF t >= 46 THEN t - 45 ELSE 0)
                /\ streak.snaps = 0
                /\ virtual_board = streak.start_board

\* Fifty ticks of a reading that is a valid position: one attempt, one snap.
C9_Witness ==
    /\ streak.on
    /\ streak.ticks = ScenarioTicks
    /\ streak.attempts = 1
    /\ streak.snaps = 1
    /\ BoardFen(virtual_board) = streak.part

\* C10: when the snap is attempted and the reading is valid with neither
\* side to move, the call returns False, the position and the memo are
\* unchanged and the counter keeps its incremented value (so it goes on
\* growing from there on the next failed tick).
C10_FailedRecoveryKeepsCounting ==
    (call.made /\ call.recovery /\ ~Recoverable(call.part))
    => /\ ~call.ret
       /\ virtual_board = call.pre_board
       /\ last_analyzed_board = call.pre_last
       /\ desync_frames = call.pre_desync + 1

\* A second failed snap in a row, with a memo set: the counter went from 46
\* to 47.
C10_Witness ==
    /\ call.made /\ call.recovery /\ ~call.ret
    /\ call.pre_desync > 45
    /\ desync_frames = call.pre_desync + 1
    /\ call.pre_last # None
    /\ last_analyzed_board = call.pre_last

\* Some placement occurs at least CONFIRM_THRESHOLD times in the window
Quorum(reads) ==
    \E i \in 1 .. Len(reads) : CountIn(reads, reads[i]) >= ConfirmThreshold

\* The loop has just run steps 1 to 4 of an iteration
TickJustMade == tick.made /\ pc \in {"idle", "synced", "failed"}

\* C11: in a tick that obtains a reading, the reading is appended to the
\* window, and _sync_to_board_part is called exactly when some placement
\* occurs at least twice in the window; the placement passed is one no other
\* entry outnumbers; without a quorum the tracked position and the counter
\* are unchanged and the tick ends without the engine.
C11_QuorumGatesSync ==
    (TickJustMade /\ tick.raw # None) =>
        /\ recent_reads = AppendRead(tick.pre_reads, tick.raw[1])
        /\ call.made <=> Quorum(recent_reads)
        /\ call.made =>
            /\ pc \in {"synced", "failed"}
            /\ call.part = tick.confirmed
            /\ CountIn(recent_reads, call.part) >= ConfirmThreshold
            /\ \A j \in 1 .. Len(recent_reads) :
                   CountIn(recent_reads, recent_reads[j])
                       <= CountIn(recent_reads, call.part)
        /\ ~call.made =>
            /\ pc = "idle"
            /\ tick.confirmed = None
            /\ virtual_board = tick.pre_board
            /\ desync_frames = tick.pre_desync
            /\ ~analysis.called

\* The newest reading is the placement after a move, the window still holds
\* more readings of the placement before it, and that one was passed.
C11_Witness ==
    /\ TickJustMade /\ tick.raw # None
    /\ call.made
    /\ call.part # tick.raw[1]
    /\ Len(recent_reads) >= 3
    /\ CountIn(recent_reads, call.part) >= ConfirmThreshold

\* C12: engine.analyze is called in a tick only if that tick confirmed a
\* reading, its sync returned True, the side to move of the tracked position
\* is the user's (white), and the FEN of the tracked position is not the
\* memo; an accepted suggestion makes the FEN the memo, so that no call
\* follows for the same position while the memo stands.
C12_AnalysisGated ==
    analysis.called =>
        /\ tick.made /\ tick.confirmed # None
        /\ analysis.confirmed = tick.confirmed
        /\ analysis.sync_ret
        /\ analysis.fen = Fen(virtual_board)
        /\ virtual_board.turn = "w"
        /\ Side = "white"
        /\ analysis.fen # analysis.pre_last
        /\ analysis.fen_updated => last_analyzed_board = analysis.fen

\* The engine is called for the position two moves after the one whose
\* suggestion was accepted and is still the memo.
C12_Witness ==
    /\ analysis.called
    /\ analysis.pre_last # None
    /\ analysis.pre_last # analysis.fen
    /\ Len(virtual_board.stack) = 2

\* C13: the answer of engine.analyze becomes the expected player move and is
\* emitted in fen_updated only if it parses as a UCI move and is the UCI
\* string of a legal move of the tracked position; the loop leaves the
\* tracked position as it was when the FEN was taken.
C13_TrustedOnlyIfLegal ==
    analysis.called =>
        /\ (analysis.hint_set \/ analysis.fen_updated) =>
            /\ analysis.best_move # NoAnswer
            /\ FromUci(analysis.best_move).ok
            /\ \E m \in LegalMoveSet(virtual_board) : Uci(m) = analysis.best_move
            /\ analysis.hint_set /\ analysis.fen_updated
            /\ vision.expected_player_move_uci = analysis.best_move
        /\ Fen(virtual_board) = analysis.fen

\* A suggestion is accepted in a position reached after some moves.
C13_Witness ==
    /\ analysis.called
    /\ analysis.hint_set
    /\ vision.expected_player_move_uci = analysis.best_move
    /\ virtual_board.stack # <<>>

\* C14: when engine.analyze answers None, a string that is no move, or a
\* move that is not legal in the tracked position, the tracked position and
\* the expected player move are as before, fen_updated is not emitted, and
\* the memo is None; and whenever a sync has returned True on the user's
\* turn with the memo None, the next step of the loop calls engine.analyze.
C14_RejectedAnswerClearsMemo ==
    /\ [](  (analysis.called
            /\ (\/ analysis.best_move = NoAnswer
                \/ ~FromUci(analysis.best_move).ok
                \/ ~\E m \in LegalMoveSet(virtual_board) :
                        Uci(m) = analysis.best_move))
           => /\ Fen(virtual_board) = analysis.fen
              /\ ~analysis.hint_set
              /\ ~analysis.fen_updated
              /\ vision.expected_player_move_uci = analysis.pre_hint
              /\ last_analyzed_board = None)
    /\ [][(pc = "synced" /\ virtual_board.turn = "w" /\ last_analyzed_board = None)
          => analysis'.called]_vars

\* An illegal move is answered while a memo and an expected move from an
\* earlier accepted suggestion stand: the memo is cleared, the expected move
\* stays.
C14_Witness ==
    /\ analysis.called
    /\ analysis.best_move = CornerUci
    /\ analysis.pre_last # None
    /\ analysis.pre_hint # None
    /\ last_analyzed_board = None
    /\ vision.expected_player_move_uci = analysis.pre_hint

\* C15: every FEN passed to engine.analyze is the complete FEN of a valid
\* position, and when its placement is the one BoardVision is tracking, its
\* side to move is the side to move of BoardVision.tracked_board.
C15_EngineFenSideAccurate ==
    analysis.called =>
        /\ analysis.fen = Fen(virtual_board)
        /\ IsValid(virtual_board)
        /\ analysis.fen[1] = BoardFen(vision.tracked_board)
               => analysis.fen[2] = vision.tracked_board.turn

\* C16: a calibrate() call that fails on a BoardVision that is calibrated
\* leaves is_calibrated, the background, template, brightness and threshold
\* data and tracked_board as they were before the call.
C16_FailedCalibrationKeepsProfile ==
    (gui.op = "calibrate" /\ ~gui.ok /\ gui.pre_vision.is_calibrated) =>
        /\ vision.is_calibrated = gui.pre_vision.is_calibrated
        /\ vision.profile = gui.pre_vision.profile
        /\ vision.tracked_board = gui.pre_vision.tracked_board

\* C17: calibrate() returns True exactly when is_calibrated is True at its
\* return; a failure returns a non-empty reason, which is last_error, with
\* is_calibrated False; a success leaves tracked_board at the start position
\* and no expected player move; and get_board_state on an object whose
\* is_calibrated is False returns None.
C17_CalibrateResult ==
    /\ gui.op = "calibrate" =>
        /\ gui.ok <=> vision.is_calibrated
        /\ ~gui.ok => /\ gui.msg # ""
                      /\ vision.last_error = gui.msg
                      /\ ~vision.is_calibrated
        /\ gui.ok => /\ vision.tracked_board = StartBoard
                     /\ vision.expected_player_move_uci = None
    /\ (TickJustMade /\ ~tick.pre_vision.is_calibrated) => tick.raw = None
    /\ (gui.op = "get_board_state" /\ ~gui.pre_vision.is_calibrated)
           => gui.ret = None

\* A calibration on a board that is no longer the start position failed
\* while the loop was running and left the data it had built; the tick
\* after it got None.
C17_Witness ==
    /\ TickJustMade
    /\ tick.raw = None
    /\ ~vision.is_calibrated
    /\ vision.last_error = "Calibration must be done in the exact start position."
    /\ vision.profile.templates # {}

\* C18: calibrate with an orientation other than white fails with a message
\* and installs nothing; get_board_state with such an orientation returns
\* None and leaves the object as it was; start_analysis with such an
\* orientation does not start the loop.
C18_NonWhiteRejected ==
    /\ (gui.op = "calibrate" /\ gui.orientation # "white") =>
        /\ ~gui.ok
        /\ gui.msg # ""
        /\ ~vision.is_calibrated
        /\ vision.profile.bg = {}
        /\ vision.profile.templates = {}
        /\ vision.profile.brightness = {}
        /\ vision.profile.thresholds = gui.pre_vision.profile.thresholds
    /\ (gui.op = "get_board_state" /\ gui.orientation # "white") =>
        /\ gui.ret = None
        /\ vision = gui.pre_vision
    /\ (gui.op = "start" /\ gui.orientation # "white") =>
        /\ ~gui.ok
        /\ running = gui.pre_running

\* get_board_state for black at the bottom on a calibrated object, with a
\* move on the screen that the object has not seen yet.
C18_Witness ==
    /\ gui.op = "get_board_state"
    /\ gui.orientation = "black"
    /\ gui.pre_vision.is_calibrated
    /\ gui.pre_vision.prev_signatures # Frame.sig
    /\ gui.ret = None
    /\ vision = gui.pre_vision

\* C19: on an object whose is_calibrated is False, get_board_state returns
\* None, pushes no move and leaves the object as it was; such a tick of the
\* loop empties recent_reads and ends without a sync or an engine call; and
\* start_analysis does not start the loop.
C19_UncalibratedDoesNothing ==
    /\ (TickJustMade /\ ~tick.pre_vision.is_calibrated) =>
        /\ tick.raw = None
        /\ tick.pushes = <<>>
        /\ vision = tick.pre_vision
        /\ recent_reads = <<>>
        /\ pc = "idle"
        /\ ~call.made
        /\ ~analysis.called
        /\ virtual_board = tick.pre_board
        /\ desync_frames = tick.pre_desync
    /\ (gui.op = "get_board_state" /\ ~gui.pre_vision.is_calibrated) =>
        /\ gui.ret = None
        /\ vision = gui.pre_vision
    /\ (gui.op = "start" /\ ~gui.pre_vision.is_calibrated) =>
        /\ ~gui.ok
        /\ running = gui.pre_running

\* The loop was running with readings in its window when a calibration
\* failed; the next tick emptied the window.
C19_Witness ==
    /\ TickJustMade
    /\ ~tick.pre_vision.is_calibrated
    /\ tick.pre_reads # <<>>
    /\ recent_reads = <<>>
    /\ running

\* C20: every move get_board_state pushes is a legal move of the board it
\* is pushed on; after every operation that writes tracked_board (a tick, a
\* calibration) it is the start position followed by legal moves, each
\* position the result of the move before it; and the FEN returned is that
\* of tracked_board.
C20_PushedMovesLegal ==
    /\ tick.made =>
        \A k \in 1 .. Len(tick.pushes) :
            tick.pushes[k].move \in LegalMoveSet(tick.pushes[k].board)
    /\ (TickJustMade /\ tick.raw # None) => tick.raw = Fen(vision.tracked_board)
    /\ (TickJustMade \/ gui.op = "calibrate" \/ vision = InitVision) =>
       LET b == vision.tracked_board
           n == Len(b.stack)
           pos(k) == IF k = n + 1 THEN Snapshot(b) ELSE b.stack[k].prev
           board(k) == [sq |-> pos(k).sq, turn |-> pos(k).turn, hm |-> pos(k).hm,
                        fm |-> pos(k).fm, stack |-> <<>>]
       IN  /\ pos(1) = Snapshot(StartBoard)
           /\ \A k \in 1 .. n :
                  /\ b.stack[k].move \in LegalMoveSet(board(k))
                  /\ Snapshot(Push(board(k), b.stack[k].move)) = pos(k + 1)

\* The expected player move, the engine's suggestion, was pushed in this
\* tick and the FEN returned is that of the board after it.
C20_Witness ==
    /\ TickJustMade
    /\ \E k \in 1 .. Len(tick.pushes) :
           /\ tick.pushes[k].by = "hint"
           /\ Uci(tick.pushes[k].move) = tick.pre_vision.expected_player_move_uci
           /\ vision.tracked_board = Push(tick.pushes[k].board, tick.pushes[k].move)
    /\ tick.raw = Fen(vision.tracked_board)

\* C21: a pending expected player move is tried before the two detectors,
\* and it is pushed on tracked_board only when it is legal there, the
\* occupancy transition confirms it (its from-square vacated, its to-square
\* occupied as a capture or a non-capture requires) and, when the frame has
\* a strong highlight pair, that pair is exactly its two squares; once
\* pushed, the hint is cleared.
C21_HintNeedsAllEvidence ==
    (TickJustMade /\ tick.pushes # <<>> /\ tick.pushes[1].by = "hint") =>
        LET v == tick.pre_vision
            mv == tick.pushes[1].move
            top == TopTwo(Frame.hl)
            from_ok == v.prev_occupancy[mv.from] /\ ~Frame.occ[mv.from]
            to_ok == IF IsCapture(v.tracked_board, mv)
                     THEN Frame.occ[mv.to]
                     ELSE ~v.prev_occupancy[mv.to] /\ Frame.occ[mv.to]
            strong == Frame.hl[top[1]] > 12 /\ Frame.hl[top[2]] > 12
        IN  /\ Uci(mv) = v.expected_player_move_uci
            /\ tick.pushes[1].board = v.tracked_board
            /\ mv \in LegalMoveSet(v.tracked_board)
            /\ from_ok /\ to_ok
            /\ strong => {top[1], top[2]} = {mv.from, mv.to}
            /\ vision.expected_player_move_uci = None


\* C30: on a tracker that calibrate() has just set up from a frame of the
\* start position, one get_board_state call on a frame of a later position
\* of the game returns a FEN whose placement is the placement in the frame.
C30_SingleFrameReadsPlacement ==
    (/\ TickJustMade
     /\ tick.pre_vision.is_calibrated
     /\ tick.pre_vision.tracked_board = StartBoard
     /\ tick.pre_vision.prev_signatures = StartBoard.sq
     /\ tick.pre_vision.unresolved_change_frames = 0
     /\ tick.pre_vision.expected_player_move_uci = None
     /\ screen.board.stack # <<>>)
        => /\ tick.raw # None
           /\ tick.raw[1] = PlacementFen(Frame.sig)


\* C22: when get_board_state returns one placement on every tick and the
\* loop keeps running, the placement of virtual_board eventually equals it
\* and stays equal, whatever was tracked before; a sync that moves
\* virtual_board is a no-op, a single legal ply, or the recovery snap, and
\* the snap is made only by a call that found the counter at 45 or more; the
\* engine is only ever given a valid position.
C22_SettlesOnReading ==
    /\ <>[](BoardFen(virtual_board) = streak.part)
    /\ [](call.made =>
            /\ call.ret =>
                 \/ virtual_board = call.pre_board
                 \/ \E i \in 1 .. Len(call.pre_moves) :
                        virtual_board = Push(call.pre_board, call.pre_moves[i])
                 \/ call.recovery /\ call.pre_desync + 1 > DesyncThreshold
            /\ ~call.ret => virtual_board = call.pre_board)
    /\ [](analysis.called =>
            /\ BoardFromFen(analysis.fen[1], analysis.fen[2]).ok
            /\ IsValid(BoardFromFen(analysis.fen[1], analysis.fen[2]).board))

\* The recovery snap has just put virtual_board on the settled placement,
\* from a position two or more plies away, after 45 failed syncs counted
\* from 0.
C22_Witness ==
    /\ pc = "synced"
    /\ call.recovery /\ call.ret
    /\ call.pre_desync = DesyncThreshold
    /\ desync_frames = 0
    /\ tick.pre_reads = [i \in 1 .. WindowSize |-> streak.part]
    /\ BoardFen(call.pre_board) # streak.part
    /\ \A i \in 1 .. Len(call.pre_moves) :
           BoardFen(Push(call.pre_board, call.pre_moves[i])) # streak.part
    /\ BoardFen(virtual_board) = streak.part


\* C23: at most one activation of run() is alive at any time, and run() is
\* at one position of one iteration: a new iteration begins only when the
\* records of the one before are gone; start_analysis() while the thread is
\* running starts nothing.
C23_OnePassAtATime ==
    /\ loop.active <= 1
    /\ loop.active = 1 <=> pc \notin {"none", "finished", "crashed"}
    /\ pc \in {"none", "starting", "loop", "capture", "frame", "finished", "crashed"}
           => tick = NoTick /\ call = NoCall /\ analysis = NoAnalysis
    /\ (gui.op = "start" /\ gui.pre_active > 0) => ~gui.ok

\* start_analysis() was called with the start button enabled, a calibrated
\* tracker and the white orientation while run() was in the middle of an
\* iteration; it was refused and the iteration goes on.
C23_Witness ==
    /\ gui.op = "start"
    /\ gui.pre_active = 1
    /\ ~gui.ok
    /\ vision.is_calibrated
    /\ win.combo_side = "white"
    /\ win.btn_start
    /\ loop.active = 1
    /\ pc = "synced"


\* C24: while run() is inside an iteration, the GUI thread is never inside
\* vision.calibrate or reset_state, whatever the user did in the window:
\* the tracked state is written by the loop alone.
C24_GuiNeverCalibratesDuringRun ==
    win.at = "calibrate" =>
        pc \notin {"capture", "frame", "idle", "synced", "analyzed"}

\* C25: once stop() has cleared the flag and waits, the loop finds the flag
\* cleared at its next while test, so run() returns and the wait ends.
C25_StopSeenAtNextCheck ==
    (win.at = "stop_wait" /\ pc = "loop") => ~running

\* C26: a capture that fails in a tick leaves the loop running: the tick
\* counts as one without a frame, the tracked state is as before, and the
\* next tick retries.
C26_FailedCaptureRetried ==
    loop.failed =>
        /\ IsRunning(pc)
        /\ loop.active = 1



\* A client is inside the engine while it waits on the engine's output or on
\* the exit of the process
InsideEngine(c) == eng.th[c].at \in WaitPositions \cup {"quit"}

\* C27: start(), stop() and the part of analyze() that talks to the engine
\* exclude one another: whoever is sending commands, reading responses,
\* killing or replacing the process holds the lock, so no two threads are
\* ever inside at once
C27_OneThreadInsideEngine ==
    /\ \A c \in Clients : InsideEngine(c) => eng.lock = c
    /\ Cardinality({c \in Clients : InsideEngine(c)}) <= 1

\* An analyze is waiting on bestmove while a stop() issued by the window
\* waits for the lock
C27_Witness ==
    /\ eng.th["loop"].op = "analyze"
    /\ eng.th["loop"].at = "bestmove"
    /\ eng.th["gui"].op = "stop"
    /\ eng.th["gui"].at = "lock"

\* C28: every call of analyze() returns, whatever the process does: write
\* nothing more, write lines that never match, or die
C28_AnalyzeReturns ==
    (eng.th["loop"].op = "analyze") ~> (eng.th["loop"].op = "idle")

\* An analyze that had sent its commands has returned None with the process
\* dead and nothing left in the queue
C28_Witness ==
    /\ eng.th["loop"].done = "analyze"
    /\ eng.th["loop"].sent
    /\ eng.th["loop"].ret = NoResult
    /\ eng.process = "dead"
    /\ eng.queue = <<>>

\* The squares a rank describes, one per letter and as many as each digit says
RECURSIVE RankWidth(_)
RankWidth(rank) ==
    IF rank = <<>> THEN 0
    ELSE (IF IsDigit(Head(rank)) THEN DigitVal(Head(rank)) ELSE 1)
         + RankWidth(Tail(rank))

\* The placement field of fen has not exactly one K and one k, or not 8
\* ranks, or a rank that is not 8 squares of piece letters and digits 1 to 8
PlacementBad(fen) ==
    /\ Fields(fen) # <<>>
    /\ LET placement == Fields(fen)[1]
           ranks == SplitOn(placement, "/", 1, <<>>)
       IN  \/ CountChar(placement, "K") # 1
           \/ CountChar(placement, "k") # 1
           \/ Len(ranks) # EngineRanks
           \/ \E r \in 1 .. Len(ranks) :
                 \/ \E i \in 1 .. Len(ranks[r]) : ranks[r][i] \notin EngineValidChars
                 \/ RankWidth(ranks[r]) # EngineFiles

\* C29: analyze(fen) on a FEN whose placement is bad returns None without
\* sending a command and without starting or killing the process
C29_InsaneFenSuppressed ==
    PlacementBad(eng.th["loop"].fen) =>
        /\ eng.th["loop"].op = "idle"
        /\ eng.th["loop"].done = "analyze"
        /\ eng.th["loop"].ret = NoResult
        /\ ~eng.th["loop"].sent
        /\ ~eng.th["loop"].touched

\* An analyze on a bad placement has returned while the engine is running
C29_Witness ==
    /\ eng.th["loop"].done = "analyze"
    /\ PlacementBad(eng.th["loop"].fen)
    /\ eng.process = "alive"
    /\ eng.th["gui"].done = "start"


\* C31: a call whose reading is the placement of virtual_board returns True
\* and leaves virtual_board as it was (placement, side to move, move stack),
\* the counter at 0 and move_detected not emitted; readings of the start
\* placement keep a tracker at the start position on the start FEN.
C31_SameReadingIsNoOp ==
    (call.made /\ call.part = BoardFen(call.pre_board)) =>
        /\ call.ret
        /\ virtual_board = call.pre_board
        /\ BoardFen(virtual_board) = call.part
        /\ virtual_board.turn = call.pre_board.turn
        /\ virtual_board.stack = call.pre_board.stack
        /\ desync_frames = 0
        /\ call.emitted = 0
        /\ ~call.recovery
        /\ call.pre_board = StartBoard => Fen(virtual_board) = Fen(StartBoard)

\* The reading came back to the tracked placement, two plies from the start,
\* after failed syncs had raised the counter
C31_Witness ==
    /\ call.made /\ call.ret
    /\ call.part = BoardFen(call.pre_board)
    /\ call.pre_desync > 0
    /\ desync_frames = 0
    /\ Len(virtual_board.stack) = 2

\* C32: move_detected is emitted at most once in a call, and exactly when
\* the call commits a legal move of the position it started from; such a
\* call returns True; a no-op, a failed call, a reading the pre-filter
\* rejects and a recovery snap emit nothing.
C32_EmittedIffMoveCommitted ==
    call.made =>
        /\ call.emitted \in {0, 1}
        /\ call.emitted = 1 <=>
               \E i \in MoveIndexes :
                   virtual_board = Push(call.pre_board, call.pre_moves[i])
        /\ call.emitted = 1 => call.ret /\ call.part = BoardFen(virtual_board)
        /\ ~call.ret => call.emitted = 0
        /\ call.part = BoardFen(call.pre_board) => call.emitted = 0
        /\ FailsPreFilter(call.part) => call.emitted = 0
        /\ call.recovery => call.emitted = 0

\* A move was committed and announced by a call that found the counter
\* raised by earlier failed calls
C32_Witness ==
    /\ call.made /\ call.ret
    /\ call.emitted = 1
    /\ call.pre_desync > 0
    /\ \E i \in MoveIndexes :
           virtual_board = Push(call.pre_board, call.pre_moves[i])


\* The last n elements of a sequence, all of them when it has fewer
LastOf(seq, n) ==
    IF Len(seq) <= n THEN seq ELSE SubSeq(seq, Len(seq) - n + 1, Len(seq))

\* C33: recent_reads never holds more than WINDOW_SIZE readings; a tick
\* that obtains a reading leaves the window holding the last WINDOW_SIZE of
\* the readings it held followed by the new one, in arrival order, so the
\* oldest is the one evicted; a tick in which get_board_state returns None
\* leaves it empty.
C33_WindowIsBoundedQueue ==
    /\ Len(recent_reads) <= WindowSize
    /\ (TickJustMade /\ tick.raw # None) =>
           /\ recent_reads = LastOf(Append(tick.pre_reads, tick.raw[1]), WindowSize)
           /\ recent_reads[Len(recent_reads)] = tick.raw[1]
    /\ (TickJustMade /\ tick.raw = None) => recent_reads = <<>>

\* A full window whose oldest reading differs from the new one has lost
\* that oldest reading and gained the new one at its end
C33_Witness ==
    /\ TickJustMade /\ tick.raw # None
    /\ Len(tick.pre_reads) = WindowSize
    /\ tick.pre_reads[1] # tick.raw[1]
    /\ Len(recent_reads) = WindowSize
    /\ recent_reads[WindowSize] = tick.raw[1]
    /\ \A i \in 1 .. WindowSize - 1 : recent_reads[i] = tick.pre_reads[i + 1]


\* The occupancy baseline a detector of the current tick compared the frame
\* with when it made push k: the one the call found, or the frame itself
\* once the hint step had pushed a move
BaselineAt(k) ==
    IF k = 1 THEN tick.pre_vision.prev_occupancy ELSE Frame.occ

\* C34: the highlight-pair detector returns a move only when the frame has
\* a strong highlight pair that is exactly the move's two squares and is not
\* the pair recorded before, the move's from-square went from occupied to
\* unoccupied, and its to-square is occupied now (a capture) or newly
\* occupied (a non-capture); a candidate with a transition that does not fit
\* is not returned.
C34_HighlightMoveNeedsTransitions ==
    TickJustMade =>
        \A k \in 1 .. Len(tick.pushes) :
            tick.pushes[k].by = "highlights" =>
                LET mv == tick.pushes[k].move
                    b == tick.pushes[k].board
                    prev == BaselineAt(k)
                    top == TopTwo(Frame.hl)
                IN  /\ Frame.hl[top[1]] > 12 /\ Frame.hl[top[2]] > 12
                    /\ {top[1], top[2]} = {mv.from, mv.to}
                    /\ {mv.from, mv.to} # tick.pre_vision.prev_highlight_pair
                    /\ mv \in LegalMoveSet(b)
                    /\ prev[mv.from] /\ ~Frame.occ[mv.from]
                    /\ IF b.sq[mv.to] # Empty
                       THEN Frame.occ[mv.to]
                       ELSE ~prev[mv.to] /\ Frame.occ[mv.to]

\* The detector returned black's reply from its highlighted squares
C34_Witness ==
    /\ TickJustMade
    /\ \E k \in 1 .. Len(tick.pushes) :
           /\ tick.pushes[k].by = "highlights"
           /\ tick.pushes[k].board.turn = "b"
           /\ vision.prev_highlight_pair =
                  {tick.pushes[k].move.from, tick.pushes[k].move.to}


\* C35: one get_board_state call pushes at most one move on tracked_board:
\* when the hint step has pushed the expected player move, neither detector
\* adds a second move in that call.
C35_OnePlyPerCall ==
    TickJustMade =>
        /\ Len(tick.pushes) <= 1
        /\ Len(vision.tracked_board.stack)
               <= Len(tick.pre_vision.tracked_board.stack) + 1
        /\ \A k \in 1 .. Len(tick.pushes) :
               vision.tracked_board = Push(tick.pre_vision.tracked_board,
                                           tick.pushes[k].move)
        /\ tick.pushes = <<>> =>
               vision.tracked_board = tick.pre_vision.tracked_board

\* The hint was pushed on a frame that already shows the reply to it, with
\* the reply's squares highlighted, and the reply was not pushed in that call
C35_Witness ==
    /\ TickJustMade
    /\ Len(tick.pushes) = 1
    /\ tick.pushes[1].by = "hint"
    /\ Len(screen.board.stack) = Len(tick.pre_vision.tracked_board.stack) + 2
    /\ screen.level > 12
    /\ Len(vision.tracked_board.stack) = Len(tick.pre_vision.tracked_board.stack) + 1


\* C36: a pending hint is pushed only onto the tracked position the engine
\* suggested it for. run() stores the analysed FEN in last_analyzed_board
\* (line 224) and keeps it when it hands the answer to the tracker (line
\* 236), so while the loop is not restarted a pending hint was suggested for
\* the position whose FEN is last_analyzed_board; a hint pushed onto a board
\* with another FEN is a stale one
C36_HintPushedWhereSuggested ==
    TickJustMade =>
        \A k \in 1 .. Len(tick.pushes) :
            tick.pushes[k].by = "hint" =>
                Fen(tick.pushes[k].board) = last_analyzed_board


\* C39: after every get_board_state call on a calibrated tracker
\* unresolved_change_frames is between 0 and 4; it is 0 after a call that
\* pushed a move; when it is 0 the signature and occupancy baselines are the
\* current frame; when it is between 1 and 4 it grew by one in the call and
\* the baselines are the ones from before the call
C39_UnresolvedCounterAndBaseline ==
    (TickJustMade /\ tick.pre_vision.is_calibrated) =>
        /\ vision.unresolved_change_frames \in 0 .. 4
        /\ tick.pushes # <<>> => vision.unresolved_change_frames = 0
        /\ vision.unresolved_change_frames = 0 =>
               /\ vision.prev_signatures = Frame.sig
               /\ vision.prev_occupancy = Frame.occ
        /\ vision.unresolved_change_frames \in 1 .. 4 =>
               /\ vision.unresolved_change_frames =
                      tick.pre_vision.unresolved_change_frames + 1
               /\ vision.prev_signatures = tick.pre_vision.prev_signatures
               /\ vision.prev_occupancy = tick.pre_vision.prev_occupancy


\* C38: nothing put by the reader thread of a replaced process reaches the
\* queue of the new process. The reader of the running process meets the
\* end of its output only once that process has ended, so a sentinel in the
\* queue while the process is alive was put by the reader of an earlier
\* process
C38_OldReaderNeverReachesNewQueue ==
    IsAlive(eng) => \A i \in 1 .. Len(eng.queue) : eng.queue[i] # None


\* The bestmove line an analyze call is about to read in its wait for the
\* answer to go, or None
AnswerAtHead(c) ==
    IF /\ eng.th[c].at = "bestmove"
       /\ eng.queue # <<>>
       /\ Head(eng.queue) # None
       /\ Head(eng.queue)[1] = "bestmove"
    THEN Head(eng.queue) ELSE None

=============================================================================
